---------------------------- MODULE Spec2Model ----------------------------
(***************************************************************************)
(* A model of gologger's sectionlogger package: one SectionLogger shared   *)
(* by a few goroutines that call Add, Event, Clear, the setters, Render    *)
(* and TimeSinceLast.  Every step of an action is one lock operation, one  *)
(* critical section, or one group of unlocked accesses of the Go code.     *)
(***************************************************************************)
EXTENDS Integers, Sequences, FiniteSets, TLC

\* ------------------------------------------------------------- bounds
\* Calls started over a run: of goroutines that share the logger, of one
\* goroutine alone, of goroutines that only append, and of one goroutine
\* that fills and renders while the others set the configuration.
MaxCalls == 2
SeqCalls == 4
AppendCalls == 2
ConfigCalls == 3
FairCalls == 2
\* Largest reading of the clock, in clock ticks.
MaxTime == 2

\* ------------------------------------------------- program constants
\* coloransi palette codes.
Black == 30
Cyan == 36
BrightGreen == 92
BrightCyan == 96
BrightWhite == 97
\* TextStyle values.
NoStyle == 0
Bold == 1
\* The width New sets.
DefaultWidth == 80
\* eventEntry.Width's constant.
EventWidth == 13
\* The field width of "%-6d".
FieldWidth == 6
\* Clock ticks per millisecond (time.Millisecond, scaled).
Millisecond == 2

\* Box-drawing glyphs, written in ASCII.
GlyphTop == "/"
GlyphBranch == "+"
GlyphBottom == "\\"
GlyphVertical == "|"
GlyphFill == "="
GlyphBracketL == "["
GlyphBracketR == "]"
GlyphCap == "~"

\* The goroutines, and the one that runs alone in the sequential runs.
Procs == {1, 2}
Main == 1
NoProc == 0

\* ------------------------------------------------------------- inputs
Prefix == "ABC"
SectionNames == {"div", "ID"}
Labels == {"Code"}
Values == {"v"}
Widths == {24}
\* A reading of time.Now() long after the construction: past the point
\* where the milliseconds since the start need seven digits.
LateInstants == {2000000}
BorderChoices == {<<BrightWhite, BrightCyan, NoStyle>>}
PrefixChoices == {<<BrightWhite, 0, Bold>>}

VARIABLES
    entries,      \* l.entries
    startTime,    \* l.startTime
    lastTime,     \* l.lastTime
    complete,     \* l.complete
    cfg,          \* l.width, l.borderFg .. l.prefixStyle
    mu,           \* l.mu: [w: the write holder or NoProc, r: the read holders]
    clock,        \* the latest reading time.Now() has returned
    out,          \* standard output: the lines printed, each with its printer
    pc,           \* each goroutine's position
    loc,          \* each goroutine's local variables
    ret,          \* what each goroutine's last finished call returned to it
    calls,        \* calls started so far
    cap           \* calls the run may start

\* Package monitor.
VARIABLES
    instance,     \* instance: NoMonitor or the *Monitor
    once,         \* once: whether once.Do has run its function
    stopChan,     \* stopChan: NoChan or the channel it refers to
    monitorMu,    \* mu of package monitor: its holder or NoProc
    channels,     \* the channels made so far: whether each is closed
    samplers,     \* the goroutines started by "go instance.run()"
    mpc,          \* each caller's position in Start or Stop
    mloc,         \* each caller's argument
    mlast,        \* what each caller's last finished call did
    mdone         \* the calls each caller has started

\* Package logger.
VARIABLES
    level,         \* Logger.level
    prefix,        \* Logger.prefix
    includeDeltaT, \* Logger.includeDeltaT
    zeroT,         \* Logger.zeroT
    written,       \* what the calls have written to Logger.writer
    lpc,           \* each caller's position in a method of the Logger
    lloc,          \* each caller's arguments and locals
    lret,          \* what each caller's last finished call did
    lcalls         \* calls of the Logger started so far

\* Package coloransi.
VARIABLES
    colorCode,     \* the ColorCode in hand
    colorFrom,     \* how it was made: CreateRGB's arguments, or a palette code
    escape         \* what OneForeground returned for it, if called

colorVars == <<colorCode, colorFrom, escape>>

monitorVars == <<instance, once, stopChan, monitorMu, channels, samplers,
                 mpc, mloc, mlast, mdone>>

loggerVars == <<level, prefix, includeDeltaT, zeroT, written, lpc, lloc, lret,
                lcalls>>

sectionVars == <<entries, startTime, lastTime, complete, cfg, mu, clock, out,
                 pc, loc, ret, calls, cap>>

vars == <<entries, startTime, lastTime, complete, cfg, mu, clock, out, pc, loc,
          ret, calls, cap, instance, once, stopChan, monitorMu, channels,
          samplers, mpc, mloc, mlast, mdone, level, prefix, includeDeltaT,
          zeroT, written, lpc, lloc, lret, lcalls, colorCode, colorFrom,
          escape>>

\* What time.Now() may return: the clock does not run backwards.
Instants == {t \in (0..MaxTime) \cup LateInstants : t >= clock}

\* ------------------------------------------------------ text helpers
LowerCase == "abcdefghijklmnopqrstuvwxyz"
UpperCase == "ABCDEFGHIJKLMNOPQRSTUVWXYZ"

\* The upper-case letter of each lower-case letter.
UpperOf ==
    LET letters == 1..Len(LowerCase)
    IN  [c \in {SubSeq(LowerCase, i, i) : i \in letters} |->
            LET i == CHOOSE k \in letters : SubSeq(LowerCase, k, k) = c
            IN  SubSeq(UpperCase, i, i)]

\* strings.ToUpper on one character.
ToUpperChar(c) == IF c \in DOMAIN UpperOf THEN UpperOf[c] ELSE c

\* strings.ToUpper.
RECURSIVE ToUpper(_)
ToUpper(s) ==
    IF Len(s) = 0 THEN ""
    ELSE ToUpperChar(SubSeq(s, 1, 1)) \o ToUpper(SubSeq(s, 2, Len(s)))

\* strings.Repeat(s, n) for n >= 0 (a negative n panics; see the callers).
RECURSIVE Repeat(_, _)
Repeat(s, n) == IF n <= 0 THEN "" ELSE s \o Repeat(s, n - 1)

\* fmt.Sprintf("%-*s", w, s): s, then spaces up to width w.
PadRight(s, w) == IF Len(s) >= w THEN s ELSE s \o Repeat(" ", w - Len(s))

\* fmt.Sprintf("%-6d", n).
FormatField(n) == PadRight(ToString(n), FieldWidth)

\* Duration.Milliseconds: integer division that truncates toward zero.
Milliseconds(d) ==
    IF d >= 0 THEN d \div Millisecond ELSE 0 - ((0 - d) \div Millisecond)

\* a | b on small non-negative integers.
RECURSIVE BitOr(_, _)
BitOr(a, b) ==
    IF a = 0 THEN b
    ELSE IF b = 0 THEN a
    ELSE (IF a % 2 = 1 \/ b % 2 = 1 THEN 1 ELSE 0) + 2 * BitOr(a \div 2, b \div 2)

\* --------------------------------------------------- coloransi spans
\* A line is a sequence of spans; a span is a text with the escape codes
\* that wrap it.  Plain is text that no coloransi call wraps.
Plain(text) == [esc |-> "none", fg |-> 0, bg |-> 0, style |-> 0, text |-> text]

Foreground(fg, text) ==
    [esc |-> "fg", fg |-> fg, bg |-> 0, style |-> 0, text |-> text]

ColorAndStyle(fg, bg, style, text) ==
    [esc |-> "fg-bg-style", fg |-> fg, bg |-> bg, style |-> style, text |-> text]

\* ------------------------------------------------------------ entries
NoEntry == [kind |-> "none"]

LabelEntry(section, label, value) ==
    [kind |-> "label", section |-> section, label |-> label, value |-> value]

\* EventEntry, had Event stored lastTime only after overwriting it.
EventEntryAfterOverwrite(section, value, timestamp, start, prev) ==
    [kind |-> "event", section |-> section, value |-> value,
     timestamp |-> timestamp, startTime |-> start, prevTime |-> timestamp]

EventEntry(section, value, timestamp, start, prev) ==
    [kind |-> "event", section |-> section, value |-> value,
     timestamp |-> timestamp, startTime |-> start, prevTime |-> prev]

Width(e) == IF e.kind = "label" THEN Len(e.label) ELSE EventWidth

Section(e) == IF e.kind = "label" THEN e.section ELSE ToUpper(e.section)

RenderLabel(e) ==
    IF e.kind = "label" THEN e.label
    ELSE LET sinceStart == Milliseconds(e.timestamp - e.startTime)
             sincePrev  == Milliseconds(e.timestamp - e.prevTime)
         IN  FormatField(sinceStart) \o " " \o FormatField(sincePrev)

RenderValue(e) == e.value

\* ---------------------------------------------------------- rendering
\* The prefix block that opens every line, from the prefix colours c.
PrefixBlock(c) == ColorAndStyle(c.prefixFg, c.prefixBg, c.prefixStyle, Prefix)

\* createBorderLine's horizontal fill count, from the width it read.
BorderWidth(width, text) ==
    IF text # "" THEN (width - 5) - (Len(text) + 4) ELSE width - 5

\* createBorderLine(leftChar, text) from the fields b it read under the
\* read lock: the parts it joins.
createBorderLine(b, leftChar, text) ==
    LET span(t) == ColorAndStyle(b.borderFg, b.borderBg, b.borderStyle, t)
        label == IF text # ""
                 THEN << span(GlyphBracketL),
                         ColorAndStyle(BrightWhite, Black,
                                       BitOr(b.borderStyle, Bold),
                                       " " \o text \o " "),
                         span(GlyphBracketR) >>
                 ELSE << >>
    IN  << span(leftChar), span(Repeat(GlyphFill, 4)) >>
        \o label
        \o << span(Repeat(GlyphFill, BorderWidth(b.width, text))),
              span(GlyphCap) >>

\* A header or footer line: fmt.Sprintf("%s %s", prefix block, border).
BorderLine(c, b, leftChar, text) ==
    << PrefixBlock(c), Plain(" ") >> \o createBorderLine(b, leftChar, text)

\* renderEntry, had it padded the entry's label alone as Render does.
renderEntryLabelOnly(c, entry, maxKeyWidth) ==
    LET labelPadded == PadRight(RenderLabel(entry), maxKeyWidth)
    IN  << PrefixBlock(c), Plain(" "),
           Foreground(BrightWhite, labelPadded),
           Plain(" : "), Plain(RenderValue(entry)) >>

\* renderEntry: the line the streaming path prints for one entry.
renderEntry(c, entry, maxKeyWidth) ==
    LET labelPadded ==
            PadRight(Section(entry) \o "/" \o RenderLabel(entry), maxKeyWidth)
    IN  << PrefixBlock(c), Plain(" "),
           Foreground(BrightWhite, labelPadded),
           Plain(" : "), Plain(RenderValue(entry)) >>

\* The line Render builds for one entry of a section.
RenderLine(c, entry, maxKeyWidth) ==
    LET labelPadded == PadRight(RenderLabel(entry), maxKeyWidth)
    IN  << PrefixBlock(c), Plain(" "),
           ColorAndStyle(c.borderFg, c.borderBg, c.borderStyle, GlyphVertical),
           Plain(" "),
           Foreground(BrightWhite, labelPadded),
           Plain(" : "), Plain(RenderValue(entry)) >>

\* calculateMaxWidth's loop over the buffer es.
RECURSIVE MaxWidthOf(_)
MaxWidthOf(es) ==
    IF es = << >> THEN 0
    ELSE LET rest == MaxWidthOf(SubSeq(es, 1, Len(es) - 1))
             w    == Width(es[Len(es)])
         IN  IF w > rest THEN w ELSE rest

\* GroupEntries with a new section put first in sectionOrder.
RECURSIVE GroupEntriesNewFirst(_, _)
GroupEntriesNewFirst(es, acc) ==
    IF es = << >> THEN acc
    ELSE LET entry   == es[1]
             section == Section(entry)
             known   == section \in DOMAIN acc.groups
             old     == IF known THEN acc.groups[section] ELSE << >>
             order   == IF Len(old) = 0 THEN << section >> \o acc.order
                        ELSE acc.order
             groups  == [s \in (DOMAIN acc.groups) \cup {section} |->
                            IF s = section THEN Append(old, entry)
                            ELSE acc.groups[s]]
         IN  GroupEntriesNewFirst(SubSeq(es, 2, Len(es)),
                                  [order |-> order, groups |-> groups])

\* GroupEntries with an entry put first in its section's group.
RECURSIVE GroupEntriesEntryFirst(_, _)
GroupEntriesEntryFirst(es, acc) ==
    IF es = << >> THEN acc
    ELSE LET entry   == es[1]
             section == Section(entry)
             known   == section \in DOMAIN acc.groups
             old     == IF known THEN acc.groups[section] ELSE << >>
             order   == IF Len(old) = 0 THEN Append(acc.order, section)
                        ELSE acc.order
             groups  == [s \in (DOMAIN acc.groups) \cup {section} |->
                            IF s = section THEN << entry >> \o old
                            ELSE acc.groups[s]]
         IN  GroupEntriesEntryFirst(SubSeq(es, 2, Len(es)),
                                    [order |-> order, groups |-> groups])

\* Render's grouping loop over the buffer es, from the state acc =
\* [order: sectionOrder, groups: the map sections].
RECURSIVE GroupEntries(_, _)
GroupEntries(es, acc) ==
    IF es = << >> THEN acc
    ELSE LET entry   == es[1]
             section == Section(entry)
             known   == section \in DOMAIN acc.groups
             old     == IF known THEN acc.groups[section] ELSE << >>
             order   == IF Len(old) = 0 THEN Append(acc.order, section)
                        ELSE acc.order
             groups  == [s \in (DOMAIN acc.groups) \cup {section} |->
                            IF s = section THEN Append(old, entry)
                            ELSE acc.groups[s]]
         IN  GroupEntries(SubSeq(es, 2, Len(es)),
                          [order |-> order, groups |-> groups])

\* The streaming path's backward scan: whether no entry of es at an index
\* up to len(es)-2 (counted from 0) has Section() equal to section.
IsNewSection(es, section) ==
    ~ \E i \in 1..(Len(es) - 1) : Section(es[i]) = section

\* Clear's filter loop, had it compared the section as the entry stores
\* it and not the entry's Section().
RECURSIVE ClearEntriesStored(_, _)
ClearEntriesStored(es, section) ==
    IF es = << >> THEN << >>
    ELSE LET rest == ClearEntriesStored(SubSeq(es, 2, Len(es)), section)
         IN  IF es[1].section # section THEN << es[1] >> \o rest ELSE rest

\* Clear's filter loop.
RECURSIVE ClearEntries(_, _)
ClearEntries(es, section) ==
    IF es = << >> THEN << >>
    ELSE LET rest == ClearEntries(SubSeq(es, 2, Len(es)), section)
         IN  IF Section(es[1]) # section THEN << es[1] >> \o rest ELSE rest

\* ------------------------------------------------------ the goroutines
\* A goroutine's local variables between calls.
ZeroLoc ==
    [op |-> "none", id |-> 0, late |-> FALSE,
     section |-> "", value |-> "", args |-> << >>, entry |-> NoEntry, now |-> 0,
     complete |-> FALSE, buf |-> << >>, isNew |-> FALSE,
     order |-> << >>, groups |-> << >>, maxKeyWidth |-> 0, results |-> << >>,
     i |-> 0, j |-> 0]

\* What a caller knows of its last finished call: the call, whether it
\* began with the flag already set, its section argument as Add or Event
\* kept it, the entry it appended, and the value returned.
NoReturn == [op |-> "none", id |-> 0, late |-> FALSE, section |-> "",
             entry |-> NoEntry, val |-> << >>]

\* Package monitor before any call: the zero values of its variables.
NoMonitor == [id |-> 0, interval |-> 0]
NoChan == 0

MonitorInit ==
    /\ instance = NoMonitor
    /\ once = FALSE
    /\ stopChan = NoChan
    /\ monitorMu = NoProc
    /\ channels = << >>
    /\ samplers = << >>
    /\ mpc = [p \in Procs |-> "idle"]
    /\ mloc = [p \in Procs |-> 0]
    /\ mlast = [p \in Procs |-> [op |-> "none", found |-> FALSE]]
    /\ mdone = [p \in Procs |-> 0]

\* Log levels in ascending order of severity.
LogLevelDebug == 0
LogLevelInfo == 1
LogLevelWarn == 2
LogLevelError == 3

\* A caller's locals in a method of the Logger, and its last finished call.
ZeroLLoc ==
    [op |-> "none", id |-> 0, sev |-> 0, ln |-> FALSE, args |-> << >>,
     arg |-> "", atCall |-> "", logPrefix |-> ""]
NoLReturn ==
    [op |-> "none", id |-> 0, sev |-> 0, ln |-> FALSE, args |-> << >>,
     arg |-> "", atCall |-> "", wrote |-> FALSE, invoked |-> {}, val |-> ""]

\* NewLogger(prefix, options...): the defaults, then WithLevel,
\* WithDeltaTime and WithZeroTime; nothing written, no call in progress.
NewLogger(pfx, lvl, include, zero) ==
    /\ level = lvl
    /\ prefix = pfx
    /\ includeDeltaT = include
    /\ zeroT = zero
    /\ written = << >>
    /\ lpc = [p \in Procs |-> "idle"]
    /\ lloc = [p \in Procs |-> ZeroLLoc]
    /\ lret = [p \in Procs |-> NoLReturn]
    /\ lcalls = 0

\* NewLogger without options.
LoggerInit == NewLogger("", LogLevelDebug, FALSE, FALSE)

\* New(prefix), with the clock's origin at the construction, at the start
\* of a run that may start n calls.
SectionInit(n) ==
    /\ entries = << >>
    /\ startTime = 0
    /\ lastTime = 0
    /\ complete = FALSE
    /\ cfg = [width |-> DefaultWidth,
              borderFg |-> Black, borderBg |-> BrightGreen, borderStyle |-> NoStyle,
              prefixFg |-> Black, prefixBg |-> Cyan, prefixStyle |-> NoStyle]
    /\ mu = [w |-> NoProc, r |-> {}]
    /\ clock = 0
    /\ out = << >>
    /\ pc = [p \in Procs |-> "idle"]
    /\ loc = [p \in Procs |-> ZeroLoc]
    /\ ret = [p \in Procs |-> NoReturn]
    /\ calls = 0
    /\ cap = n

\* No colour made yet.
NoColor == [kind |-> "none"]
NoEscape == [esc |-> "none"]

ColorInit ==
    /\ colorCode = <<0, 0, 0, 0>>
    /\ colorFrom = NoColor
    /\ escape = NoEscape

\* The section logger at the start of a run, with the monitor not started
\* and a Logger no one calls.
InitWith(n) == SectionInit(n) /\ MonitorInit /\ LoggerInit /\ ColorInit

Init == InitWith(MaxCalls)

\* An unrecovered panic ends the program: nothing runs after it.
Running == \A q \in Procs : pc[q] # "panic"

\* sync.RWMutex: who may take the lock now.
CanLock == mu.w = NoProc /\ mu.r = {}
CanRLock == mu.w = NoProc

Lock(p) == mu' = [mu EXCEPT !.w = p]
Unlock(p) == mu' = [mu EXCEPT !.w = NoProc]
RLock(p) == mu' = [mu EXCEPT !.r = @ \cup {p}]
RUnlock(p) == mu' = [mu EXCEPT !.r = @ \ {p}]

\* A goroutine starts a call: its locals, the call's serial number, and
\* whether the flag is already set.
Begin(p, op, next, locals) ==
    /\ Running
    /\ pc[p] = "idle"
    /\ calls < cap
    /\ calls' = calls + 1
    /\ UNCHANGED <<cap, monitorVars, loggerVars, colorVars>>
    /\ pc' = [pc EXCEPT ![p] = next]
    /\ loc' = [loc EXCEPT ![p] =
                  [f \in DOMAIN ZeroLoc |->
                      IF f \in DOMAIN locals THEN locals[f]
                      ELSE IF f = "op" THEN op
                      ELSE IF f = "id" THEN calls + 1
                      ELSE IF f = "late" THEN complete
                      ELSE ZeroLoc[f]]]

\* A goroutine takes a step inside a call.
At(p, here) ==
    Running /\ pc[p] = here /\ UNCHANGED <<cap, monitorVars, loggerVars, colorVars>>

Goto(p, next) == pc' = [pc EXCEPT ![p] = next]

\* The call returns val to its caller.
Return(p, val) ==
    /\ pc' = [pc EXCEPT ![p] = "idle"]
    /\ ret' = [ret EXCEPT ![p] =
                  [op |-> loc[p].op, id |-> loc[p].id, late |-> loc[p].late,
                   section |-> loc[p].section, entry |-> loc[p].entry,
                   val |-> val]]
    /\ loc' = [loc EXCEPT ![p] = ZeroLoc]

\* fmt.Println / fmt.Printf of one line by goroutine p.
Printed(p, line) == Append(out, [by |-> p, id |-> loc[p].id, line |-> line])

\* ----------------------------------------------------------------- Add
AddCall(p) ==
    \E section \in SectionNames, label \in Labels, value \in Values :
        /\ Begin(p, "Add", "add_lock",
                 [section |-> ToUpper(section),
                  entry |-> LabelEntry(ToUpper(section), label, value)])
        /\ UNCHANGED <<entries, startTime, lastTime, complete, cfg, mu, clock, out, ret>>

\* AddLock, had Add appended without waiting for the lock.
AddLockUnguarded(p) ==
    /\ At(p, "add_lock")
    /\ Lock(p)
    /\ loc' = [loc EXCEPT ![p].buf = entries]
    /\ Goto(p, "add_store")
    /\ UNCHANGED <<entries, startTime, lastTime, complete, cfg, clock, out, ret, calls>>

\* Lock; then append reads the slice ...
AddLock(p) ==
    /\ At(p, "add_lock")
    /\ CanLock
    /\ Lock(p)
    /\ loc' = [loc EXCEPT ![p].buf = entries]
    /\ Goto(p, "add_store")
    /\ UNCHANGED <<entries, startTime, lastTime, complete, cfg, clock, out, ret, calls>>

\* AddStore, had Add only buffered the entry whatever the flag.
AddStoreBuffered(p) ==
    /\ At(p, "add_store")
    /\ entries' = Append(loc[p].buf, loc[p].entry)
    /\ \E now \in Instants :
          /\ clock' = now
          /\ lastTime' = now
    /\ Unlock(p)
    /\ Return(p, << >>)
    /\ UNCHANGED <<startTime, complete, cfg, out, calls>>

\* ... and stores the longer one; then lastTime and the flag, and Unlock.
AddStore(p) ==
    /\ At(p, "add_store")
    /\ entries' = Append(loc[p].buf, loc[p].entry)
    /\ \E now \in Instants :
          /\ clock' = now
          /\ lastTime' = now
    /\ Unlock(p)
    /\ IF complete
       THEN /\ loc' = [loc EXCEPT ![p].complete = TRUE, ![p].buf = << >>]
            /\ Goto(p, "scan")
            /\ UNCHANGED ret
       ELSE Return(p, << >>)
    /\ UNCHANGED <<startTime, complete, cfg, out, calls>>

\* ------------------------------------------- the streaming path
\* The late-message path of Add and of Event, the same code in both.  Its
\* section is Add's upper-cased one, and Event's as the caller wrote it.
\* RLock, the backward scan, RUnlock.
Scan(p) ==
    /\ At(p, "scan")
    /\ CanRLock
    /\ LET isNewSection == IsNewSection(entries, loc[p].section)
       IN  /\ loc' = [loc EXCEPT ![p].isNew = isNewSection]
           /\ Goto(p, IF isNewSection THEN "header_print" ELSE "width")
    /\ UNCHANGED <<entries, startTime, lastTime, complete, cfg, mu, clock, out, ret, calls>>

\* The continuation header: the prefix colours are read with no lock
\* held, createBorderLine reads its fields between RLock and RUnlock, and
\* the line is printed; strings.Repeat panics on a negative count.
HeaderPrint(p) ==
    /\ At(p, "header_print")
    /\ CanRLock
    /\ IF BorderWidth(cfg.width, loc[p].section) < 0
       THEN /\ Goto(p, "panic")
            /\ UNCHANGED out
       ELSE /\ out' = Printed(p, BorderLine(cfg, cfg, GlyphBranch, loc[p].section))
            /\ Goto(p, "width")
    /\ UNCHANGED <<entries, startTime, lastTime, complete, cfg, mu, clock, loc, ret, calls>>

\* calculateMaxWidth: RLock, the loop, RUnlock.
CalcWidth(p) ==
    /\ At(p, "width")
    /\ CanRLock
    /\ loc' = [loc EXCEPT ![p].maxKeyWidth = MaxWidthOf(entries)]
    /\ Goto(p, "entry_print")
    /\ UNCHANGED <<entries, startTime, lastTime, complete, cfg, mu, clock, out, ret, calls>>

\* renderEntry reads the prefix colours with no lock held; the line is printed.
EntryPrint(p) ==
    /\ At(p, "entry_print")
    /\ out' = Printed(p, renderEntry(cfg, loc[p].entry, loc[p].maxKeyWidth))
    /\ Return(p, << >>)
    /\ UNCHANGED <<entries, startTime, lastTime, complete, cfg, mu, clock, calls>>

\* --------------------------------------------------------------- Event
\* time.Now() is read before the lock is taken.
EventCall(p) ==
    \E section \in SectionNames, value \in Values, now \in Instants :
        /\ Begin(p, "Event", "event_lock",
                 [section |-> section, value |-> value, now |-> now])
        /\ clock' = now
        /\ UNCHANGED <<entries, startTime, lastTime, complete, cfg, mu, out, ret>>

\* Lock; the entry is built from l.startTime and l.lastTime, and append
\* reads the slice ...
EventLock(p) ==
    /\ At(p, "event_lock")
    /\ CanLock
    /\ Lock(p)
    /\ loc' = [loc EXCEPT
                  ![p].entry = EventEntry(loc[p].section, loc[p].value,
                                          loc[p].now, startTime, lastTime),
                  ![p].buf = entries]
    /\ Goto(p, "event_store")
    /\ UNCHANGED <<entries, startTime, lastTime, complete, cfg, clock, out, ret, calls>>

\* EventStore, had Event returned without Unlock.
EventStoreKeepingLock(p) ==
    /\ At(p, "event_store")
    /\ entries' = Append(loc[p].buf, loc[p].entry)
    /\ lastTime' = loc[p].now
    /\ IF complete
       THEN /\ loc' = [loc EXCEPT ![p].complete = TRUE, ![p].buf = << >>]
            /\ Goto(p, "scan")
            /\ UNCHANGED ret
       ELSE Return(p, << >>)
    /\ UNCHANGED <<startTime, complete, cfg, mu, clock, out, calls>>

\* ... and stores the longer one; then lastTime and the flag, and Unlock.
EventStore(p) ==
    /\ At(p, "event_store")
    /\ entries' = Append(loc[p].buf, loc[p].entry)
    /\ lastTime' = loc[p].now
    /\ Unlock(p)
    /\ IF complete
       THEN /\ loc' = [loc EXCEPT ![p].complete = TRUE, ![p].buf = << >>]
            /\ Goto(p, "scan")
            /\ UNCHANGED ret
       ELSE Return(p, << >>)
    /\ UNCHANGED <<startTime, complete, cfg, clock, out, calls>>

\* --------------------------------------------------------------- Clear
ClearCall(p) ==
    \E section \in SectionNames :
        /\ Begin(p, "Clear", "clear_lock", [section |-> section])
        /\ UNCHANGED <<entries, startTime, lastTime, complete, cfg, mu, clock, out, ret>>

ClearLock(p) ==
    /\ At(p, "clear_lock")
    /\ CanLock
    /\ Lock(p)
    /\ Goto(p, "clear_filter")
    /\ UNCHANGED <<entries, startTime, lastTime, complete, cfg, clock, out, loc, ret, calls>>

\* ClearFilter, had Clear counted as a mutation that updates lastTime.
ClearFilterStamping(p) ==
    /\ At(p, "clear_filter")
    /\ entries' = ClearEntries(entries, ToUpper(loc[p].section))
    /\ \E now \in Instants :
          /\ clock' = now
          /\ lastTime' = now
    /\ Unlock(p)
    /\ Return(p, << >>)
    /\ UNCHANGED <<startTime, complete, cfg, out, calls>>

\* ClearFilter, had Clear started a new report by resetting the flag.
ClearFilterResetting(p) ==
    /\ At(p, "clear_filter")
    /\ entries' = ClearEntries(entries, ToUpper(loc[p].section))
    /\ complete' = FALSE
    /\ Unlock(p)
    /\ Return(p, << >>)
    /\ UNCHANGED <<startTime, lastTime, cfg, clock, out, calls>>

\* The filter loop, the store of the new slice, and Unlock.
ClearFilter(p) ==
    /\ At(p, "clear_filter")
    /\ entries' = ClearEntries(entries, ToUpper(loc[p].section))
    /\ Unlock(p)
    /\ Return(p, << >>)
    /\ UNCHANGED <<startTime, lastTime, complete, cfg, clock, out, calls>>

\* ------------------------------------------------------------- setters
SetWidthCall(p) ==
    \E width \in Widths :
        /\ Begin(p, "SetWidth", "setwidth_lock", [args |-> << width >>])
        /\ UNCHANGED <<entries, startTime, lastTime, complete, cfg, mu, clock, out, ret>>

SetWidthLock(p) ==
    /\ At(p, "setwidth_lock")
    /\ CanLock
    /\ Lock(p)
    /\ Goto(p, "setwidth_store")
    /\ UNCHANGED <<entries, startTime, lastTime, complete, cfg, clock, out, loc, ret, calls>>

SetWidthStore(p) ==
    /\ At(p, "setwidth_store")
    /\ cfg' = [cfg EXCEPT !.width = loc[p].args[1]]
    /\ Unlock(p)
    /\ Return(p, << >>)
    /\ UNCHANGED <<entries, startTime, lastTime, complete, clock, out, calls>>

\* SetBorderColor and SetPrefixColor take no lock: three plain stores.
SetBorderColorCall(p) ==
    \E choice \in BorderChoices :
        /\ Begin(p, "SetBorderColor", "border_fg", [args |-> choice])
        /\ UNCHANGED <<entries, startTime, lastTime, complete, cfg, mu, clock, out, ret>>

SetBorderFg(p) ==
    /\ At(p, "border_fg")
    /\ cfg' = [cfg EXCEPT !.borderFg = loc[p].args[1]]
    /\ Goto(p, "border_bg")
    /\ UNCHANGED <<entries, startTime, lastTime, complete, mu, clock, out, loc, ret, calls>>

SetBorderBg(p) ==
    /\ At(p, "border_bg")
    /\ cfg' = [cfg EXCEPT !.borderBg = loc[p].args[2]]
    /\ Goto(p, "border_style")
    /\ UNCHANGED <<entries, startTime, lastTime, complete, mu, clock, out, loc, ret, calls>>

SetBorderStyle(p) ==
    /\ At(p, "border_style")
    /\ cfg' = [cfg EXCEPT !.borderStyle = loc[p].args[3]]
    /\ Return(p, << >>)
    /\ UNCHANGED <<entries, startTime, lastTime, complete, mu, clock, out, calls>>

SetPrefixColorCall(p) ==
    \E choice \in PrefixChoices :
        /\ Begin(p, "SetPrefixColor", "prefix_fg", [args |-> choice])
        /\ UNCHANGED <<entries, startTime, lastTime, complete, cfg, mu, clock, out, ret>>

SetPrefixFg(p) ==
    /\ At(p, "prefix_fg")
    /\ cfg' = [cfg EXCEPT !.prefixFg = loc[p].args[1]]
    /\ Goto(p, "prefix_bg")
    /\ UNCHANGED <<entries, startTime, lastTime, complete, mu, clock, out, loc, ret, calls>>

SetPrefixBg(p) ==
    /\ At(p, "prefix_bg")
    /\ cfg' = [cfg EXCEPT !.prefixBg = loc[p].args[2]]
    /\ Goto(p, "prefix_style")
    /\ UNCHANGED <<entries, startTime, lastTime, complete, mu, clock, out, loc, ret, calls>>

SetPrefixStyle(p) ==
    /\ At(p, "prefix_style")
    /\ cfg' = [cfg EXCEPT !.prefixStyle = loc[p].args[3]]
    /\ Return(p, << >>)
    /\ UNCHANGED <<entries, startTime, lastTime, complete, mu, clock, out, calls>>

\* -------------------------------------------------------------- Render
RenderCall(p) ==
    /\ Begin(p, "Render", "render_rlock", << >>)
    /\ UNCHANGED <<entries, startTime, lastTime, complete, cfg, mu, clock, out, ret>>

\* RenderRLock, had Render set the flag before it asked for the read lock.
RenderRLockFlagging(p) ==
    /\ At(p, "render_rlock")
    /\ IF complete
       THEN /\ CanRLock
            /\ RLock(p)
            /\ Goto(p, "render_group")
            /\ UNCHANGED complete
       ELSE /\ complete' = TRUE
            /\ UNCHANGED <<mu, pc>>
    /\ UNCHANGED <<entries, startTime, lastTime, cfg, clock, out, loc, ret, calls>>

RenderRLock(p) ==
    /\ At(p, "render_rlock")
    /\ CanRLock
    /\ RLock(p)
    /\ Goto(p, "render_group")
    /\ UNCHANGED <<entries, startTime, lastTime, complete, cfg, clock, out, loc, ret, calls>>

\* RenderGroup, had a Render after the first found nothing left to report.
RenderGroupOnce(p) ==
    /\ At(p, "render_group")
    /\ complete' = TRUE
    /\ LET g == GroupEntries(IF complete THEN << >> ELSE entries,
                             [order |-> << >>, groups |-> << >>])
       IN  loc' = [loc EXCEPT ![p].order = g.order, ![p].groups = g.groups]
    /\ RUnlock(p)
    /\ Goto(p, "render_width")
    /\ UNCHANGED <<entries, startTime, lastTime, cfg, clock, out, ret, calls>>

\* RenderGroup, had Render handed the buffer over and left it empty.
RenderGroupDraining(p) ==
    /\ At(p, "render_group")
    /\ complete' = TRUE
    /\ LET g == GroupEntries(entries, [order |-> << >>, groups |-> << >>])
       IN  loc' = [loc EXCEPT ![p].order = g.order, ![p].groups = g.groups]
    /\ entries' = << >>
    /\ RUnlock(p)
    /\ Goto(p, "render_width")
    /\ UNCHANGED <<startTime, lastTime, cfg, clock, out, ret, calls>>

\* Under the read lock: the flag is set and the buffer is grouped.
RenderGroup(p) ==
    /\ At(p, "render_group")
    /\ complete' = TRUE
    /\ LET g == GroupEntries(entries, [order |-> << >>, groups |-> << >>])
       IN  loc' = [loc EXCEPT ![p].order = g.order, ![p].groups = g.groups]
    /\ RUnlock(p)
    /\ Goto(p, "render_width")
    /\ UNCHANGED <<entries, startTime, lastTime, cfg, clock, out, ret, calls>>

\* RenderWidth, had Render appended the closing line whether or not it
\* had produced a line.
RenderWidthAlwaysClosing(p) ==
    /\ At(p, "render_width")
    /\ CanRLock
    /\ loc' = [loc EXCEPT ![p].maxKeyWidth = MaxWidthOf(entries), ![p].i = 1]
    /\ Goto(p, "render_header")
    /\ UNCHANGED <<entries, startTime, lastTime, complete, cfg, mu, clock, out,
                   ret, calls>>

\* calculateMaxWidth: RLock, the loop, RUnlock.  Then the loop over
\* sectionOrder starts, or Render returns no line.
RenderWidth(p) ==
    /\ At(p, "render_width")
    /\ CanRLock
    /\ IF loc[p].order = << >>
       THEN Return(p, << >>)
       ELSE /\ loc' = [loc EXCEPT ![p].maxKeyWidth = MaxWidthOf(entries),
                                  ![p].i = 1]
            /\ Goto(p, "render_header")
            /\ UNCHANGED ret
    /\ UNCHANGED <<entries, startTime, lastTime, complete, cfg, mu, clock, out, calls>>

\* RenderHeader, had every header the top-left corner.
RenderHeaderAllTop(p) ==
    /\ At(p, "render_header")
    /\ CanRLock
    /\ LET i == loc[p].i
           footer == i > Len(loc[p].order)
           text == IF footer THEN "" ELSE loc[p].order[i]
           leftChar == IF footer THEN GlyphBottom ELSE GlyphTop
           results == Append(loc[p].results,
                             BorderLine(cfg, cfg, leftChar, text))
       IN  IF BorderWidth(cfg.width, text) < 0
           THEN Goto(p, "panic") /\ UNCHANGED <<loc, ret>>
           ELSE IF footer
           THEN Return(p, results)
           ELSE /\ loc' = [loc EXCEPT ![p].results = results, ![p].j = 1]
                /\ Goto(p, "render_line")
                /\ UNCHANGED ret
    /\ UNCHANGED <<entries, startTime, lastTime, complete, cfg, mu, clock, out, calls>>

\* The header of section i, or past the last section the closing line,
\* which ends the call: the prefix colours are read with no lock held and
\* createBorderLine reads its fields between RLock and RUnlock.
RenderHeader(p) ==
    /\ At(p, "render_header")
    /\ CanRLock
    /\ LET i == loc[p].i
           footer == i > Len(loc[p].order)
           text == IF footer THEN "" ELSE loc[p].order[i]
           leftChar == IF footer THEN GlyphBottom
                       ELSE IF i = 1 THEN GlyphTop ELSE GlyphBranch
           results == Append(loc[p].results,
                             BorderLine(cfg, cfg, leftChar, text))
       IN  IF BorderWidth(cfg.width, text) < 0
           THEN Goto(p, "panic") /\ UNCHANGED <<loc, ret>>
           ELSE IF footer
           THEN Return(p, results)
           ELSE /\ loc' = [loc EXCEPT ![p].results = results, ![p].j = 1]
                /\ Goto(p, "render_line")
                /\ UNCHANGED ret
    /\ UNCHANGED <<entries, startTime, lastTime, complete, cfg, mu, clock, out, calls>>

\* RenderEntryLine, had Render printed each line as it built it.
RenderEntryLinePrinting(p) ==
    /\ At(p, "render_line")
    /\ LET i == loc[p].i
           j == loc[p].j
           group == loc[p].groups[loc[p].order[i]]
           line == RenderLine(cfg, group[j], loc[p].maxKeyWidth)
       IN  /\ loc' = [loc EXCEPT ![p].results = Append(@, line),
                                 ![p].j = IF j < Len(group) THEN j + 1 ELSE 0,
                                 ![p].i = IF j < Len(group) THEN i ELSE i + 1]
           /\ out' = Printed(p, line)
           /\ Goto(p, IF j < Len(group) THEN "render_line" ELSE "render_header")
    /\ UNCHANGED <<entries, startTime, lastTime, complete, cfg, mu, clock, ret, calls>>

\* One entry line of section i; the colours are read with no lock held.
RenderEntryLine(p) ==
    /\ At(p, "render_line")
    /\ LET i == loc[p].i
           j == loc[p].j
           group == loc[p].groups[loc[p].order[i]]
           line == RenderLine(cfg, group[j], loc[p].maxKeyWidth)
       IN  /\ loc' = [loc EXCEPT ![p].results = Append(@, line),
                                 ![p].j = IF j < Len(group) THEN j + 1 ELSE 0,
                                 ![p].i = IF j < Len(group) THEN i ELSE i + 1]
           /\ Goto(p, IF j < Len(group) THEN "render_line" ELSE "render_header")
    /\ UNCHANGED <<entries, startTime, lastTime, complete, cfg, mu, clock, out, ret, calls>>

\* ------------------------------------------------------ specifications
AddStep(p) == AddCall(p) \/ AddLock(p) \/ AddStore(p)

EventStep(p) == EventCall(p) \/ EventLock(p) \/ EventStore(p)

StreamStep(p) == Scan(p) \/ HeaderPrint(p) \/ CalcWidth(p) \/ EntryPrint(p)

ClearStep(p) == ClearCall(p) \/ ClearLock(p) \/ ClearFilter(p)

SetterStep(p) ==
    \/ SetWidthCall(p) \/ SetWidthLock(p) \/ SetWidthStore(p)
    \/ SetBorderColorCall(p) \/ SetBorderFg(p) \/ SetBorderBg(p) \/ SetBorderStyle(p)
    \/ SetPrefixColorCall(p) \/ SetPrefixFg(p) \/ SetPrefixBg(p) \/ SetPrefixStyle(p)

RenderStep(p) ==
    \/ RenderCall(p) \/ RenderRLock(p) \/ RenderGroup(p) \/ RenderWidth(p)
    \/ RenderHeader(p) \/ RenderEntryLine(p)

Step(p) ==
    \/ AddStep(p) \/ EventStep(p) \/ StreamStep(p)
    \/ ClearStep(p) \/ SetterStep(p) \/ RenderStep(p)

\* Several goroutines share the logger.
Next == \E p \in Procs : Step(p)

Spec == Init /\ [][Next]_vars

\* One goroutine uses the logger alone, and leaves its colours as they are.
NextSeq ==
    \/ AddStep(Main) \/ EventStep(Main) \/ StreamStep(Main)
    \/ ClearStep(Main) \/ RenderStep(Main)

SpecSeq == InitWith(SeqCalls) /\ [][NextSeq]_vars

\* Several goroutines only append: Add and Event, and no other call.
NextAppend == \E p \in Procs : AddStep(p) \/ EventStep(p)

SpecAppend == InitWith(AppendCalls) /\ [][NextAppend]_vars

\* One goroutine fills and renders the logger while the others set its
\* width and colours.
NextConfig ==
    \/ AddStep(Main) \/ StreamStep(Main) \/ RenderStep(Main)
    \/ \E p \in Procs \ {Main} : SetterStep(p)

SpecConfig == InitWith(ConfigCalls) /\ [][NextConfig]_vars

\* The calls that take the lock: all but the two colour setters.
LockingStep(p) ==
    \/ AddStep(p) \/ EventStep(p) \/ StreamStep(p) \/ ClearStep(p)
    \/ SetWidthCall(p) \/ SetWidthLock(p) \/ SetWidthStore(p)
    \/ RenderStep(p)

NextLocking == \E p \in Procs : LockingStep(p)

\* Goroutine p takes a step inside the call it has started.
InCall(p) == pc[p] # "idle" /\ LockingStep(p)

\* Several goroutines share the logger; the scheduler runs every
\* goroutine that can run, and sync.RWMutex hands the lock to a goroutine
\* that keeps waiting for it.
SpecFair ==
    /\ InitWith(FairCalls)
    /\ [][NextLocking]_vars
    /\ \A p \in Procs : WF_vars(InCall(p))

\* ------------------------------------------------- reading the lines
\* A header line of Render or of the streaming path: its third span is a
\* corner glyph, and its sixth the section name between two spaces.
IsHeaderLine(line) ==
    /\ Len(line) = 9
    /\ line[3].esc = "fg-bg-style"
    /\ line[3].text \in {GlyphTop, GlyphBranch}

HeaderName(line) == SubSeq(line[6].text, 2, Len(line[6].text) - 1)

\* The closing line: the bottom corner and no section name.
IsFooterLine(line) ==
    /\ Len(line) = 6
    /\ line[3].esc = "fg-bg-style"
    /\ line[3].text = GlyphBottom

\* An entry line of Render: its third span is the vertical border.
IsRenderEntryLine(line) ==
    /\ Len(line) = 7
    /\ line[3].esc = "fg-bg-style"
    /\ line[3].text = GlyphVertical

\* An entry line of the streaming path: its third span is the label.
IsStreamEntryLine(line) ==
    /\ Len(line) = 5
    /\ line[3].esc = "fg"

\* The section names of the header lines of lines, in their order.
HeaderNames(lines) ==
    LET headers == SelectSeq(lines, IsHeaderLine)
    IN  [k \in 1..Len(headers) |-> HeaderName(headers[k])]

\* The index at which section s first occurs in the buffer es.
FirstIndex(es, s) ==
    CHOOSE i \in 1..Len(es) :
        /\ Section(es[i]) = s
        /\ \A k \in 1..(i - 1) : Section(es[k]) # s

\* A goroutine holds the lines of a Render that was its last call.
Rendered(p) == pc[p] = "idle" /\ ret[p].op = "Render"

\* ------------------------------------------------------------------ C1
\* C1: the section headers of the lines Render returns are the distinct
\* upper-cased section names of the buffer, each once, in the order of
\* their first occurrence in the buffer.
C1_HeadersInFirstOccurrenceOrder ==
    Rendered(Main) =>
        LET names == HeaderNames(ret[Main].val)
        IN  /\ {names[k] : k \in 1..Len(names)}
                 = {Section(entries[i]) : i \in 1..Len(entries)}
            /\ \A k, m \in 1..Len(names) :
                  k < m => FirstIndex(entries, names[k]) < FirstIndex(entries, names[m])

\* Render has returned for a buffer whose sections interleave: an event
\* of "div", an entry of another section, and again one of DIV.
C1_Witness ==
    /\ Rendered(Main)
    /\ Len(entries) = 3
    /\ entries[1].kind = "event" /\ entries[1].section = "div"
    /\ Section(entries[2]) = "ID"
    /\ Section(entries[3]) = "DIV"
    /\ HeaderNames(ret[Main].val) = << "DIV", "ID" >>

\* ------------------------------------------------------------------ C2
\* The lines that follow the header at index i, up to the next header or
\* the closing line.
LinesUnder(lines, i) ==
    LET stop == CHOOSE j \in (i + 1)..Len(lines) :
                    /\ IsHeaderLine(lines[j]) \/ IsFooterLine(lines[j])
                    /\ \A k \in (i + 1)..(j - 1) :
                          ~ (IsHeaderLine(lines[k]) \/ IsFooterLine(lines[k]))
    IN  SubSeq(lines, i + 1, stop - 1)

\* Line shows entry e as Render shows it in a column of width w.
ShowsEntry(line, e, w) ==
    /\ IsRenderEntryLine(line)
    /\ line[5].text = PadRight(RenderLabel(e), w)
    /\ line[7].text = RenderValue(e)

\* C2: under each section header of the lines Render returns stand the
\* lines of exactly the buffered entries of that section, in the order
\* in which the buffer holds them.
C2_EntriesInBufferOrder ==
    Rendered(Main) =>
        LET lines == ret[Main].val
            w == MaxWidthOf(entries)
        IN  \A i \in 1..Len(lines) :
                IsHeaderLine(lines[i]) =>
                    LET InSection(e) == Section(e) = HeaderName(lines[i])
                        own == SelectSeq(entries, InSection)
                        under == LinesUnder(lines, i)
                    IN  /\ Len(under) = Len(own)
                        /\ \A k \in 1..Len(own) : ShowsEntry(under[k], own[k], w)

\* Render has returned for a buffer that holds, in section DIV, a label
\* entry, then an entry of another section, then an event.
C2_Witness ==
    /\ Rendered(Main)
    /\ Len(entries) = 3
    /\ entries[1].kind = "label" /\ Section(entries[1]) = "DIV"
    /\ Section(entries[2]) = "ID"
    /\ entries[3].kind = "event" /\ Section(entries[3]) = "DIV"
    /\ Len(ret[Main].val) = 6

\* ------------------------------------------------------------------ C3
\* Main's call in progress returns in this step.
Returns(op) == loc[Main].op = op /\ pc[Main] # "idle" /\ pc'[Main] = "idle"

\* C3: when a Render returns and the caller's call before it was a Render
\* too, with no call between the two, the second returns the same
\* sequence of lines as the first.
C3_RenderTwiceSameLines ==
    [][(Returns("Render") /\ ret[Main].op = "Render")
          => ret'[Main].val = ret[Main].val]_vars

\* Add, Event, Render, Render: the fourth call is a Render that has
\* returned the lines of two entries, nothing was streamed, so both
\* appends precede the first Render and the second Render follows it.
C3_Witness ==
    /\ Rendered(Main)
    /\ ret[Main].id = 4
    /\ out = << >>
    /\ Len(entries) = 2
    /\ entries[1].kind = "label" /\ entries[2].kind = "event"
    /\ Len(ret[Main].val) >= 4

\* ------------------------------------------------------------------ C4
\* C4: when Clear(X) returns, whatever the case of X and whether Add or
\* Event appended them, no entry whose Section() is upper-case X is left
\* in the buffer, the entries of the other sections are all there in the
\* order they had, and a buffer with no entry of that section is as it was.
C4_ClearRemovesOneSection ==
    [][Returns("Clear") =>
          LET X == ToUpper(loc[Main].section)
              Other(e) == Section(e) # X
          IN  /\ \A i \in 1..Len(entries') : Section(entries'[i]) # X
              /\ entries' = SelectSeq(entries, Other)
              /\ (\A i \in 1..Len(entries) : Section(entries[i]) # X)
                    => entries' = entries]_vars

\* The fourth call was Clear("div") and has returned; the buffer holds
\* two events of section ID, and the first of them was appended after an
\* entry that is no longer there.  Three appends and one Clear make the
\* four calls, so this Clear removed an entry of DIV and kept the others.
C4_Witness ==
    /\ pc[Main] = "idle"
    /\ ret[Main].op = "Clear" /\ ret[Main].section = "div" /\ ret[Main].id = 4
    /\ Len(entries) = 2
    /\ \A i \in 1..2 : entries[i].kind = "event" /\ Section(entries[i]) = "ID"
    /\ entries[1].prevTime > startTime

\* ------------------------------------------------------------------ C5
\* The positions in the output of the lines the call numbered id printed.
PrintedBy(id) == {k \in 1..Len(out) : out[k].id = id}

\* Of these, the entry lines of the streaming path.
EntryLinesBy(id) == {k \in PrintedBy(id) : IsStreamEntryLine(out[k].line)}

\* Goroutine p's last call was an Add or an Event and has returned.
Appended(p) == pc[p] = "idle" /\ ret[p].op \in {"Add", "Event"}

\* C5: as long as no Render has set the flag, nothing is printed, so an
\* Add or Event that returns before the first Render has printed nothing;
\* an Add or Event that began with the flag set, as every call made after
\* the first Render returned does, has on return buffered its entry and
\* printed exactly one entry line, the line of that entry.
C5_StreamsOnlyAfterRender ==
    /\ ~ complete => out = << >>
    /\ \A p \in Procs :
          Appended(p) =>
              /\ ~ complete => PrintedBy(ret[p].id) = {}
              /\ ret[p].late =>
                    /\ Cardinality(EntryLinesBy(ret[p].id)) = 1
                    /\ \A k \in EntryLinesBy(ret[p].id) :
                          /\ out[k].by = p
                          /\ out[k].line[5].text = RenderValue(ret[p].entry)
                          /\ \E w \in 0..EventWidth :
                                out[k].line[3].text =
                                    PadRight(Section(ret[p].entry) \o "/"
                                               \o RenderLabel(ret[p].entry), w)

\* One goroutine's Add returned before any Render and printed nothing;
\* then the other's Render returned.
C5_WitnessBefore ==
    \E p, q \in Procs :
        /\ Appended(p) /\ ret[p].op = "Add" /\ ~ ret[p].late
        /\ Rendered(q) /\ ret[q].id > ret[p].id
        /\ ret[q].val # << >>
        /\ out = << >>

\* A Render returned, and an Add that began after it has returned with
\* its entry in the buffer and a header and an entry line printed.
C5_Witness ==
    \E p, q \in Procs :
        /\ Rendered(q)
        /\ Appended(p) /\ ret[p].op = "Add" /\ ret[p].late
        /\ ret[p].id > ret[q].id
        /\ entries = << ret[p].entry >>
        /\ Len(out) = 2
        /\ IsHeaderLine(out[1].line)
        /\ IsStreamEntryLine(out[2].line)

\* ------------------------------------------------------------------ C6
\* C6: the flag is false after New, only a step of a Render call sets
\* it, and no step of any call, of Add, Event, Clear, a setter or Render,
\* ever makes a true flag false.
C6_FlagSetOnceByRender ==
    /\ ~ complete
    /\ [][(complete => complete')
             /\ ((~ complete /\ complete')
                    => \E p \in Procs : loc[p].op = "Render")]_vars

\* The flag is set, and a Clear that began with the flag set has
\* returned: the flag outlived a later call.
C6_Witness ==
    /\ complete
    /\ \E p \in Procs :
          /\ pc[p] = "idle"
          /\ ret[p].op = "Clear" /\ ret[p].late

\* ------------------------------------------------------------------ C7
\* Every call that was started has returned.
AllReturned == \A p \in Procs : pc[p] = "idle"

\* C7: with goroutines that only call Add and Event, once every call has
\* returned the buffer holds as many entries as calls were made, and the
\* entry of each goroutine's last call is among them.
C7_NoLostAppend ==
    AllReturned =>
        /\ Len(entries) = calls
        /\ \A p \in Procs :
              ret[p].op # "none" =>
                  \E i \in 1..Len(entries) : entries[i] = ret[p].entry

\* Two goroutines were inside their calls at the same time, one in Add
\* and one in Event; both have returned and the buffer holds two entries.
C7_Witness ==
    /\ AllReturned
    /\ calls = 2
    /\ Len(entries) = 2
    /\ \E p, q \in Procs :
          /\ ret[p].op = "Add" /\ ret[q].op = "Event"
          /\ ret[q].id < ret[p].id
          /\ entries[1] = ret[p].entry /\ entries[2] = ret[q].entry

\* ------------------------------------------------------------------ C8
\* The lines the caller's previous call printed, when a Render has just
\* returned: the lines streamed for the entry added right before it.
StreamedBefore == PrintedBy(ret[Main].id - 1)

\* C8 as the specification states it: each line the streaming path
\* printed for the entry added right before a Render stands, as it is,
\* among the lines that Render returns.
C8_StreamedLinesAreRenderLines ==
    Rendered(Main) =>
        \A k \in StreamedBefore :
            \E m \in 1..Len(ret[Main].val) : ret[Main].val[m] = out[k].line

\* Render's line m is the last line under the header of section name.
LastLineOf(lines, m, name) ==
    \E i \in 1..Len(lines) :
        /\ IsHeaderLine(lines[i])
        /\ HeaderName(lines[i]) = name
        /\ m = i + Len(LinesUnder(lines, i))
        /\ m > i

\* The streamed entry line s against Render's line r of the same entry e
\* in a column of width w: the same prefix block, separator and value;
\* no vertical border; the label with the section and a slash before it.
StreamedEntryMatches(s, r, e, w) ==
    /\ ShowsEntry(r, e, w)
    /\ s[1] = r[1] /\ s[2] = r[2]
    /\ s[4] = r[6] /\ s[5] = r[7]
    /\ s[3] = [r[5] EXCEPT !.text =
                   PadRight(Section(e) \o "/" \o RenderLabel(e), w)]
    /\ s # r

\* The streamed header line s against Render's header line r: the same
\* but for the corner, which is the branch when streamed, and for the
\* letter case of the name.
StreamedHeaderMatches(s, r) ==
    /\ \A n \in {1, 2, 4, 5, 7, 8, 9} : s[n] = r[n]
    /\ s[3] = [r[3] EXCEPT !.text = GlyphBranch]
    /\ [s[6] EXCEPT !.text = ""] = [r[6] EXCEPT !.text = ""]
    /\ ToUpper(HeaderName(s)) = HeaderName(r)

\* C8 amended: with one caller, each line streamed for the entry added
\* right before a Render has its counterpart among the lines Render
\* returns, an entry line the last line of the entry's section and a
\* header line the header of that section, and matches it in the parts
\* named above, without being the same line where it is an entry line.
C8_StreamedLinesMatchInParts ==
    Rendered(Main) =>
        LET lines == ret[Main].val
            e == entries[Len(entries)]
            w == MaxWidthOf(entries)
        IN  \A k \in StreamedBefore :
                LET s == out[k].line
                IN  \E m \in 1..Len(lines) :
                        IF IsHeaderLine(s)
                        THEN /\ IsHeaderLine(lines[m])
                             /\ HeaderName(lines[m]) = Section(e)
                             /\ StreamedHeaderMatches(s, lines[m])
                        ELSE /\ IsStreamEntryLine(s)
                             /\ LastLineOf(lines, m, Section(e))
                             /\ StreamedEntryMatches(s, lines[m], e, w)

\* Render, Event("div", ...), Render: the Event streamed a header naming
\* "div" and an entry line, and the second Render has returned.
C8_Witness ==
    /\ Rendered(Main)
    /\ ret[Main].id = 3
    /\ Len(entries) = 1
    /\ entries[1].kind = "event" /\ entries[1].section = "div"
    /\ \E k, n \in StreamedBefore :
          /\ IsHeaderLine(out[k].line) /\ HeaderName(out[k].line) = "div"
          /\ IsStreamEntryLine(out[n].line)

\* ------------------------------------------------------------------ C9
\* An event's since-start value: its timestamp minus its startTime.
SinceStart(e) == e.timestamp - e.startTime

\* C9: of two event entries, the one that stands earlier in the buffer
\* has a since-start value less than or equal to the other's, whatever
\* the interleaving of the Event callers.
C9_SinceStartMonotonic ==
    \A i, j \in 1..Len(entries) :
        (i < j /\ entries[i].kind = "event" /\ entries[j].kind = "event")
            => SinceStart(entries[i]) <= SinceStart(entries[j])

\* ----------------------------------------------------------------- C10
\* Goroutine p stores its event in this step.
StoresEvent(p) == pc[p] = "event_store" /\ pc'[p] # "event_store"

\* C10: the event an Event call appends carries as prevTime the value
\* lastTime has right before the call overwrites it, which is the
\* timestamp of the event before it when the buffer ends with one, and
\* as startTime the logger's startTime; the call then stores the event's
\* own timestamp in lastTime.
C10_PrevTimeIsLastTimeBefore ==
    [][\A p \in Procs :
          StoresEvent(p) =>
              LET e == entries'[Len(entries')]
              IN  /\ entries' = Append(entries, e)
                  /\ e.kind = "event"
                  /\ e.prevTime = lastTime
                  /\ e.startTime = startTime
                  /\ lastTime' = e.timestamp
                  /\ (entries # << >> /\ entries[Len(entries)].kind = "event")
                        => e.prevTime = entries[Len(entries)].timestamp]_vars

\* An Add wrote lastTime one tick after the construction, and the Event
\* that followed it in the buffer carries that time as prevTime and the
\* construction time as startTime.
C10_Witness ==
    /\ AllReturned
    /\ Len(entries) = 2
    /\ entries[1].kind = "label"
    /\ entries[2].kind = "event"
    /\ entries[2].prevTime = 1
    /\ entries[2].timestamp = 2
    /\ entries[2].startTime = startTime
    /\ lastTime = 2

\* ----------------------------------------------------------------- C11
\* The number of characters that stand before the " : " of an entry line
\* of Render: the texts of its first five spans.
SeparatorColumn(line) ==
    Len(line[1].text) + Len(line[2].text) + Len(line[3].text)
        + Len(line[4].text) + Len(line[5].text)

\* C11: in the lines one Render returns, the " : " of every entry line
\* stands at the same column, whatever the labels and the events' times.
C11_SeparatorsAligned ==
    Rendered(Main) =>
        \A m, n \in 1..Len(ret[Main].val) :
            (IsRenderEntryLine(ret[Main].val[m]) /\ IsRenderEntryLine(ret[Main].val[n]))
                => SeparatorColumn(ret[Main].val[m]) = SeparatorColumn(ret[Main].val[n])

\* ----------------------------------------------------------------- C12
\* This step is goroutine p's, taken while p holds the write lock.
StepsHoldingLock(p) == pc'[p] # pc[p] /\ mu.w = p

\* C12: a step that changes the buffer, lastTime or the flag is the step
\* of a goroutine that holds the write lock.
C12_WritesHoldWriteLock ==
    [][(entries' # entries \/ lastTime' # lastTime \/ complete' # complete)
          => \E p \in Procs : StepsHoldingLock(p)]_vars

\* ----------------------------------------------------------------- C13
\* The configuration fields.
BorderFields == {"borderFg", "borderBg", "borderStyle"}
PrefixFields == {"prefixFg", "prefixBg", "prefixStyle"}

\* The configuration field goroutine p's next step writes.
WritesOf(p) ==
    CASE pc[p] = "setwidth_store" -> {"width"}
      [] pc[p] = "border_fg"      -> {"borderFg"}
      [] pc[p] = "border_bg"      -> {"borderBg"}
      [] pc[p] = "border_style"   -> {"borderStyle"}
      [] pc[p] = "prefix_fg"      -> {"prefixFg"}
      [] pc[p] = "prefix_bg"      -> {"prefixBg"}
      [] pc[p] = "prefix_style"   -> {"prefixStyle"}
      [] OTHER                    -> {}

\* The fields goroutine q's next step reads between RLock and RUnlock:
\* createBorderLine's four.
LockedReadsOf(q) ==
    IF pc[q] \in {"header_print", "render_header"}
    THEN {"width"} \cup BorderFields
    ELSE {}

\* The fields goroutine q's next step reads with no lock held: the prefix
\* colours of every line, and the border colours of Render's entry line.
UnlockedReadsOf(q) ==
    CASE pc[q] \in {"header_print", "render_header", "entry_print"} -> PrefixFields
      [] pc[q] = "render_line" -> PrefixFields \cup BorderFields
      [] OTHER -> {}

\* The tables agree with the steps: a field changes only in a step of a
\* goroutine whose next write it was.
WritesOfAgrees ==
    [][\A f \in DOMAIN cfg :
          cfg'[f] # cfg[f] =>
              \E p \in Procs : pc'[p] # pc[p] /\ f \in WritesOf(p)]_vars

\* Goroutine p is about to write field f and goroutine q to read it, and
\* no lock orders the two: the read is made with no lock held, or the
\* write is made by a goroutine that does not hold the write lock.
Unordered(p, q, f) ==
    /\ p # q
    /\ f \in WritesOf(p)
    /\ \/ f \in UnlockedReadsOf(q)
       \/ f \in LockedReadsOf(q) /\ mu.w # p

\* C13: no setter's write of a configuration field and no read of that
\* field by a concurrent Render, Add or Event are left unordered.
C13_SettersOrderedWithReaders ==
    \A p, q \in Procs : \A f \in DOMAIN cfg : ~ Unordered(p, q, f)

\* ----------------------------------------------------------------- C14
\* C14: under weak fairness every call a goroutine has started, of Add,
\* Event, Clear, SetWidth or Render, returns, whatever the other
\* goroutines do meanwhile.
C14_EveryCallReturns ==
    \A p \in Procs : (pc[p] # "idle") ~> (pc[p] = "idle")

\* Two Event calls were under way at once, the one that began second
\* took the lock first, and both have returned.
C14_Witness ==
    /\ AllReturned
    /\ Len(entries) = 2
    /\ \E p, q \in Procs :
          /\ ret[p].op = "Event" /\ ret[q].op = "Event"
          /\ ret[q].id < ret[p].id
          /\ entries[1] = ret[p].entry /\ entries[2] = ret[q].entry

\* ----------------------------------------------------------------- C15
\* C15: Render returns no line exactly when the buffer is empty; for a
\* buffer that is not, the last line it returns is a closing line, with
\* the bottom corner and no section label, and no other line is one.
C15_ClosingLineOnceAtEnd ==
    Rendered(Main) =>
        LET lines == ret[Main].val
        IN  /\ (lines = << >>) <=> (entries = << >>)
            /\ entries # << >> =>
                  /\ IsFooterLine(lines[Len(lines)])
                  /\ \A m \in 1..(Len(lines) - 1) : ~ IsFooterLine(lines[m])
                  /\ \A n \in 1..6 :
                        lines[Len(lines)][n].text
                            \notin {GlyphBracketL, GlyphBracketR}

\* Render has returned the lines of a buffer of two sections.
C15_Witness ==
    /\ Rendered(Main)
    /\ Len(entries) = 2
    /\ Section(entries[1]) # Section(entries[2])
    /\ Len(ret[Main].val) = 5
    /\ IsFooterLine(ret[Main].val[5])

\* Render has returned no line: every entry was cleared before it.
C15_WitnessEmpty ==
    /\ Rendered(Main)
    /\ ret[Main].id = 3
    /\ lastTime > startTime
    /\ entries = << >>
    /\ ret[Main].val = << >>

\* ----------------------------------------------------------------- C16
\* The sections of the buffer.
SectionsOf(es) == {Section(es[i]) : i \in 1..Len(es)}

\* The positions of the header lines among lines.
HeadersIn(lines) == {m \in 1..Len(lines) : IsHeaderLine(lines[m])}

\* C16: for a buffer of n >= 1 entries in s sections Render returns
\* s + n + 1 lines: s headers, the first line being one with the
\* top-left corner and every later one having the branch, each followed
\* at once by as many entry lines as the buffer has entries of its
\* section, and then the closing line.
C16_LineCountAndCorners ==
    (Rendered(Main) /\ entries # << >>) =>
        LET lines == ret[Main].val
            n == Len(entries)
            s == Cardinality(SectionsOf(entries))
        IN  /\ Len(lines) = s + n + 1
            /\ Cardinality(HeadersIn(lines)) = s
            /\ 1 \in HeadersIn(lines)
            /\ \A m \in HeadersIn(lines) :
                  /\ lines[m][3].text = (IF m = 1 THEN GlyphTop ELSE GlyphBranch)
                  /\ LET InSection(e) == Section(e) = HeaderName(lines[m])
                         k == Len(SelectSeq(entries, InSection))
                     IN  /\ k >= 1
                         /\ \A j \in 1..k : IsRenderEntryLine(lines[m + j])
                         /\ ~ IsRenderEntryLine(lines[m + k + 1])

\* Render has returned six lines for three entries in two sections, the
\* first header with the top-left corner and the second with the branch.
C16_Witness ==
    /\ Rendered(Main)
    /\ Len(entries) = 3
    /\ Cardinality(SectionsOf(entries)) = 2
    /\ Len(ret[Main].val) = 6
    /\ ret[Main].val[1][3].text = GlyphTop
    /\ \E m \in 2..5 : /\ IsHeaderLine(ret[Main].val[m])
                        /\ ret[Main].val[m][3].text = GlyphBranch

\* ----------------------------------------------------------------- C17
\* The number of glyphs a sequence of spans shows.
RECURSIVE GlyphCount(_)
GlyphCount(spans) ==
    IF spans = << >> THEN 0
    ELSE Len(spans[1].text) + GlyphCount(SubSeq(spans, 2, Len(spans)))

\* The border of a header or closing line: what follows the prefix block
\* and the space.
BorderOf(line) == SubSeq(line, 3, Len(line))

\* C17: every border line createBorderLine made for a line Render
\* returns, with or without a section name, shows as many glyphs as the
\* configured width.
C17_BorderLineHasWidth ==
    Rendered(Main) =>
        \A m \in 1..Len(ret[Main].val) :
            LET line == ret[Main].val[m]
            IN  (IsHeaderLine(line) \/ IsFooterLine(line))
                    => GlyphCount(BorderOf(line)) = cfg.width

\* ----------------------------------------------------------------- C18
\* This step is a step of a call of op by goroutine p: its start, or a
\* step inside it.
StepOf(p, op) ==
    /\ pc'[p] # pc[p]
    /\ \/ loc[p].op = op
       \/ pc[p] = "idle" /\ loc'[p].op = op

\* C18: no step of a Clear call, before or after the first Render,
\* changes the flag, startTime, lastTime or the configuration, and none
\* prints; the buffer is all it changes.
C18_ClearChangesOnlyBuffer ==
    [][\A p \in Procs :
          StepOf(p, "Clear") =>
              UNCHANGED <<complete, startTime, lastTime, cfg, out>>]_vars

\* An Add wrote lastTime, and a Clear has returned that emptied the
\* buffer: lastTime still holds the Add's time.
C18_Witness ==
    \E p \in Procs :
        /\ pc[p] = "idle" /\ ret[p].op = "Clear"
        /\ entries = << >>
        /\ lastTime > startTime
        /\ out = << >>

\* ----------------------------------------------------------------- C19
\* C19: no step of a Render call prints or changes the buffer, startTime,
\* lastTime or a configuration field; of the logger's state a Render
\* changes the flag alone.
C19_RenderChangesOnlyFlag ==
    [][\A p \in Procs :
          StepOf(p, "Render") =>
              UNCHANGED <<entries, startTime, lastTime, cfg, out>>]_vars

\* A Render has set the flag and returned the three lines of a buffer of
\* one entry, which is as it was, and nothing was printed.
C19_Witness ==
    \E p \in Procs :
        /\ Rendered(p)
        /\ complete
        /\ Len(entries) = 1
        /\ Len(ret[p].val) = 3
        /\ out = << >>

\* ----------------------------------------------------------------- C20
\* The streamed entry line names section sec before the slash.
StreamedFor(line, sec) ==
    /\ IsStreamEntryLine(line)
    /\ Len(line[3].text) > Len(sec)
    /\ SubSeq(line[3].text, 1, Len(sec) + 1) = sec \o "/"

\* No call before the call numbered id streamed an entry of section sec:
\* the entry of that call is the first of its section since the Render.
FirstLateOf(id, sec) ==
    ~ \E k \in 1..Len(out) : out[k].id < id /\ StreamedFor(out[k].line, sec)

\* The call numbered id printed a header line, right before its entry line.
HeaderPrintedBy(id) ==
    \E k \in PrintedBy(id) :
        /\ IsHeaderLine(out[k].line)
        /\ k + 1 \in EntryLinesBy(id)

\* C20: with one caller, an Add or Event made after the first Render
\* prints a header line before its entry's line exactly when the entry is
\* the first of its section added since that Render, whether or not the
\* section had entries before it.
C20_HeaderOnFirstLateEntry ==
    (Appended(Main) /\ ret[Main].late) =>
        (HeaderPrintedBy(ret[Main].id)
            <=> FirstLateOf(ret[Main].id, Section(ret[Main].entry)))

\* ----------------------------------------------------------------- C21
\* C21: with one caller, a late Add or Event for a section string prints
\* a header exactly when no other buffered entry has the upper-cased
\* string as its section, which is Add's decision, and the header it
\* prints names the upper-cased string, whatever the letter case.
C21_EventDecidesAsAdd ==
    (Appended(Main) /\ ret[Main].late) =>
        LET name == ToUpper(ret[Main].section)
        IN  /\ HeaderPrintedBy(ret[Main].id) <=> IsNewSection(entries, name)
            /\ \A k \in PrintedBy(ret[Main].id) :
                  IsHeaderLine(out[k].line) => HeaderName(out[k].line) = name

\* ----------------------------------------------------------------- C22
\* The section of the header that governs line m of lines.
GoverningSection(lines, m) ==
    LET h == CHOOSE i \in 1..m :
                 /\ IsHeaderLine(lines[i])
                 /\ \A k \in (i + 1)..m : ~ IsHeaderLine(lines[k])
    IN  HeaderName(lines[h])

\* C22: a Render that begins with the flag set, that is after the first
\* Render, returns one entry line for every entry the buffer holds, the
\* streamed ones included, each under the header of its section.
C22_LaterRenderShowsWholeBuffer ==
    (Rendered(Main) /\ ret[Main].late) =>
        LET lines == ret[Main].val
            w == MaxWidthOf(entries)
            shown == {m \in 1..Len(lines) : IsRenderEntryLine(lines[m])}
        IN  /\ Cardinality(shown) = Len(entries)
            /\ \A i \in 1..Len(entries) :
                  \E m \in shown :
                      /\ ShowsEntry(lines[m], entries[i], w)
                      /\ GoverningSection(lines, m) = Section(entries[i])

\* Add, Render, Event, Render: the Event's entry was streamed, and the
\* second Render has returned the five lines of both entries.
C22_Witness ==
    /\ Rendered(Main) /\ ret[Main].late
    /\ ret[Main].id = 4
    /\ Len(entries) = 2
    /\ entries[1].kind = "label" /\ entries[2].kind = "event"
    /\ Section(entries[1]) # Section(entries[2])
    /\ EntryLinesBy(3) # {}
    /\ Len(ret[Main].val) = 5


-----------------------------------------------------------------------------
\* Package monitor: Start, Stop and the sampler goroutine.

\* Calls to Start and Stop a run of the monitor may start.
MonitorCalls == 4
\* The same, in the runs checked under fairness.
FairMonitorCalls == 3

\* The intervals given to Start, in milliseconds.
Intervals == {100, 200}

\* No caller has panicked: a panic ends the program.
MonitorRunning == \A p \in Procs : mpc[p] # "panicked"

MonitorCallsStarted == mdone[1] + mdone[2]

MAt(p, here) ==
    MonitorRunning /\ mpc[p] = here
    /\ UNCHANGED <<sectionVars, loggerVars, colorVars>>

MBegin(p, first, arg) ==
    /\ MAt(p, "idle")
    /\ mpc' = [mpc EXCEPT ![p] = first]
    /\ mloc' = [mloc EXCEPT ![p] = arg]
    /\ mdone' = [mdone EXCEPT ![p] = @ + 1]
    /\ UNCHANGED <<instance, once, stopChan, monitorMu, channels, samplers,
                   mlast>>

\* mu.Lock() of package monitor.
MLock(p, here, next) ==
    /\ MAt(p, here)
    /\ monitorMu = NoProc
    /\ monitorMu' = p
    /\ mpc' = [mpc EXCEPT ![p] = next]
    /\ UNCHANGED <<instance, once, stopChan, channels, samplers, mloc, mlast,
                   mdone>>

\* The deferred mu.Unlock() and the return.
MReturn(p, op, found) ==
    /\ monitorMu' = NoProc
    /\ mpc' = [mpc EXCEPT ![p] = "idle"]
    /\ mlast' = [mlast EXCEPT ![p] = [op |-> op, found |-> found]]
    /\ UNCHANGED <<mloc, mdone>>

\* The deferred mu.Unlock() of a call that panics.
MPanic(p) ==
    /\ monitorMu' = NoProc
    /\ mpc' = [mpc EXCEPT ![p] = "panicked"]
    /\ UNCHANGED <<mlast, mloc, mdone>>

\* Start(interval): the call and mu.Lock().
StartCall(p, interval) == MBegin(p, "Start.lock", interval)

StartLock(p) == MLock(p, "Start.lock", "Start.body")

\* Start without any guard: a new monitor replaces the running one.
StartBodyReplacing(p) ==
    /\ MAt(p, "Start.body")
    /\ instance' = [id |-> Len(samplers) + 1, interval |-> mloc[p]]
    /\ once' = TRUE
    /\ channels' = Append(channels, FALSE)
    /\ stopChan' = Len(channels) + 1
    /\ samplers' = Append(samplers, [pc |-> "select", interval |-> mloc[p],
                                     ch |-> NoChan])
    /\ MReturn(p, "Start", instance # NoMonitor)

\* Start under the lock: the running check, then once.Do with the function
\* that makes the monitor and its channel and starts the sampler.
StartBody(p) ==
    /\ MAt(p, "Start.body")
    /\ IF instance # NoMonitor \/ once
       THEN UNCHANGED <<instance, once, stopChan, channels, samplers>>
       ELSE /\ instance' = [id |-> Len(samplers) + 1, interval |-> mloc[p]]
            /\ once' = TRUE
            /\ channels' = Append(channels, FALSE)
            /\ stopChan' = Len(channels) + 1
            /\ samplers' = Append(samplers,
                                  [pc |-> "select", interval |-> mloc[p],
                                   ch |-> NoChan])
    /\ MReturn(p, "Start", instance # NoMonitor)

\* Stop(): the call and mu.Lock().
StopCall(p) == MBegin(p, "Stop.lock", 0)

StopLock(p) == MLock(p, "Stop.lock", "Stop.body")

\* close(c) panics on a nil channel and on a closed one.
ClosePanics(c) == c = NoChan \/ channels[c]

\* Stop without the running check.
StopBodyUnguarded(p) ==
    /\ MAt(p, "Stop.body")
    /\ IF ClosePanics(stopChan)
       THEN /\ UNCHANGED <<instance, once, stopChan, channels, samplers>>
            /\ MPanic(p)
       ELSE /\ channels' = [channels EXCEPT ![stopChan] = TRUE]
            /\ instance' = NoMonitor
            /\ once' = FALSE
            /\ UNCHANGED <<stopChan, samplers>>
            /\ MReturn(p, "Stop", instance # NoMonitor)

\* Stop that leaves once as it is.
StopBodyKeepingOnce(p) ==
    /\ MAt(p, "Stop.body")
    /\ IF instance = NoMonitor
       THEN /\ UNCHANGED <<instance, once, stopChan, channels, samplers>>
            /\ MReturn(p, "Stop", FALSE)
       ELSE IF ClosePanics(stopChan)
       THEN /\ UNCHANGED <<instance, once, stopChan, channels, samplers>>
            /\ MPanic(p)
       ELSE /\ channels' = [channels EXCEPT ![stopChan] = TRUE]
            /\ instance' = NoMonitor
            /\ UNCHANGED <<once, stopChan, samplers>>
            /\ MReturn(p, "Stop", TRUE)

\* Stop under the lock: the running check, close(stopChan), and the reset of
\* instance and once.
StopBody(p) ==
    /\ MAt(p, "Stop.body")
    /\ IF instance = NoMonitor
       THEN /\ UNCHANGED <<instance, once, stopChan, channels, samplers>>
            /\ MReturn(p, "Stop", FALSE)
       ELSE IF ClosePanics(stopChan)
       THEN /\ UNCHANGED <<instance, once, stopChan, channels, samplers>>
            /\ MPanic(p)
       ELSE /\ channels' = [channels EXCEPT ![stopChan] = TRUE]
            /\ instance' = NoMonitor
            /\ once' = FALSE
            /\ UNCHANGED <<stopChan, samplers>>
            /\ MReturn(p, "Stop", TRUE)

\* A step of sampler s that leaves the callers and the package variables alone.
SamplerAt(s, here) ==
    /\ MonitorRunning
    /\ s \in 1..Len(samplers)
    /\ samplers[s].pc = here
    /\ UNCHANGED <<sectionVars, loggerVars, colorVars, instance, once, stopChan,
                   monitorMu, channels, mpc, mloc, mlast, mdone>>

\* run enters the select: the channel operand is the package variable
\* stopChan, read without mu.
SamplerSelect(s) ==
    /\ SamplerAt(s, "select")
    /\ samplers' = [samplers EXCEPT ![s].pc = "wait", ![s].ch = stopChan]

\* case <-ticker.C: the statistics are logged and the loop goes round.
SamplerTick(s) ==
    /\ SamplerAt(s, "wait")
    /\ samplers' = [samplers EXCEPT ![s].pc = "select"]

\* case <-stopChan: the receive from a closed channel; run returns.
SamplerStop(s) ==
    /\ SamplerAt(s, "wait")
    /\ samplers[s].ch # NoChan
    /\ channels[samplers[s].ch]
    /\ samplers' = [samplers EXCEPT ![s].pc = "exited"]

CallerStep(p) ==
    \/ StartLock(p) \/ StartBody(p)
    \/ StopLock(p) \/ StopBody(p)

SamplerStep(s) == SamplerSelect(s) \/ SamplerTick(s) \/ SamplerStop(s)

\* Goroutines calling Start and Stop in any order, and the samplers.
NextMonitor ==
    \/ \E p \in Procs :
          \/ /\ MonitorCallsStarted < MonitorCalls
             /\ \/ \E d \in Intervals : StartCall(p, d)
                \/ StopCall(p)
          \/ CallerStep(p)
    \/ \E s \in 1..MonitorCalls : SamplerStep(s)

SpecMonitor == InitWith(0) /\ [][NextMonitor]_vars

\* Each goroutine calls Start and then Stop.
NextStartStop ==
    \/ \E p \in Procs :
          \/ mdone[p] = 0 /\ \E d \in Intervals : StartCall(p, d)
          \/ mdone[p] = 1 /\ StopCall(p)
          \/ CallerStep(p)
    \/ \E s \in 1..MonitorCalls : SamplerStep(s)

SpecStartStop == InitWith(0) /\ [][NextStartStop]_vars

\* One goroutine calling Start and Stop in any order, and the samplers,
\* every goroutine scheduled fairly: a call in progress goes on, a sampler
\* at the select enters it, and a sampler that keeps finding its channel
\* closed takes that case.
NextMonitorFair ==
    \/ /\ MonitorCallsStarted < FairMonitorCalls
       /\ \/ \E d \in Intervals : StartCall(Main, d)
          \/ StopCall(Main)
    \/ CallerStep(Main)
    \/ \E s \in 1..FairMonitorCalls : SamplerStep(s)

SpecMonitorFair ==
    /\ InitWith(0)
    /\ [][NextMonitorFair]_vars
    /\ WF_vars(CallerStep(Main))
    /\ \A s \in 1..FairMonitorCalls :
          /\ WF_vars(SamplerSelect(s))
          /\ SF_vars(SamplerStop(s))

-----------------------------------------------------------------------------
\* Claims about package monitor.

\* Caller p finishes the body of op in this step.
MStepOf(p, op) == mpc[p] = op /\ mpc'[p] # op

\* C23: a Start that finds the monitor running starts no sampler and leaves
\* the instance, its interval and the stop channel as they are.
C23_StartWhileRunningChangesNothing ==
    [][\A p \in Procs :
          (MStepOf(p, "Start.body") /\ instance # NoMonitor) =>
              (/\ instance' = instance
               /\ samplers' = samplers
               /\ stopChan' = stopChan
               /\ channels' = channels)]_vars

\* A Start has returned after finding the monitor running with another
\* interval than its own; the monitor still runs with the first one.
C23_Witness ==
    \E p \in Procs :
        /\ mlast[p] = [op |-> "Start", found |-> TRUE]
        /\ mpc[p] = "idle"
        /\ instance # NoMonitor
        /\ instance.interval # mloc[p]
        /\ Len(samplers) = 1

\* C24: a Stop that finds the monitor not running returns and changes
\* nothing, and no call panics: no channel is closed twice.
C24_StopWhenStoppedChangesNothing ==
    [][/\ \A p \in Procs :
             (MStepOf(p, "Stop.body") /\ instance = NoMonitor) =>
                 (/\ mpc'[p] = "idle"
                  /\ UNCHANGED <<instance, once, stopChan, channels,
                                 samplers>>)
       /\ \A p \in Procs : mpc'[p] # "panicked"]_vars

\* A Stop has returned after finding the monitor already stopped by an
\* earlier Stop.
C24_Witness ==
    \E p \in Procs :
        /\ mlast[p] = [op |-> "Stop", found |-> FALSE]
        /\ mpc[p] = "idle"
        /\ instance = NoMonitor
        /\ stopChan # NoChan
        /\ channels[stopChan]

\* A Stop has returned before any Start.
C24_WitnessNeverStarted ==
    \E p \in Procs :
        /\ mlast[p] = [op |-> "Stop", found |-> FALSE]
        /\ mpc[p] = "idle"
        /\ stopChan = NoChan

\* Every goroutine has returned from its Start and from its Stop.
AllStartedAndStopped == \A p \in Procs : mdone[p] = 2 /\ mpc[p] = "idle"

\* C25: with each goroutine calling Start and then Stop, a Start that finds
\* the monitor stopped leaves it running with its interval and a new
\* sampler, and once all calls have returned the instance is nil.
C25_StartStopConcurrently ==
    [][/\ \A p \in Procs :
             (MStepOf(p, "Start.body") /\ instance = NoMonitor) =>
                 (/\ instance' # NoMonitor
                  /\ instance'.interval = mloc[p]
                  /\ Len(samplers') = Len(samplers) + 1)
       /\ AllStartedAndStopped' => instance' = NoMonitor]_vars

\* All calls have returned, and both Starts found the monitor stopped: the
\* second one after the first goroutine's Stop.
C25_Witness ==
    /\ AllStartedAndStopped
    /\ Len(samplers) = 2
    /\ instance = NoMonitor

\* All calls have returned; one Start found the monitor running and one
\* Stop found it stopped.
C25_WitnessContended ==
    /\ AllStartedAndStopped
    /\ Len(samplers) = 1
    /\ instance = NoMonitor
    /\ \E p \in Procs : mlast[p] = [op |-> "Stop", found |-> FALSE]

\* C26: once the channel made by the Start that started sampler s is closed,
\* by the Stop that found that monitor running, sampler s eventually returns
\* from run.
C26_StoppedSamplerExits ==
    \A s \in 1..FairMonitorCalls :
        (s \in 1..Len(channels) /\ channels[s])
            ~> (s \in 1..Len(samplers) /\ samplers[s].pc = "exited")

-----------------------------------------------------------------------------
\* Package logger: the levelled Logger.

\* Calls of the Logger a run may start: when the level filter and when the
\* prefix are examined.
LevelCalls == 2
PrefixCalls == 3
\* Arguments of one logging call.
MaxArgs == 2

\* LogLevel.String.
LevelString(l) ==
    CASE l = LogLevelDebug -> "DEBUG"
      [] l = LogLevelInfo  -> "INFO"
      [] l = LogLevelWarn  -> "WARN"
      [] l = LogLevelError -> "ERROR"
      [] OTHER             -> "UNKNOWN"

\* The levels given to WithLevel and the severities of the four methods.
Levels == LogLevelDebug..LogLevelError

\* The prefixes given to NewLogger and to SetPrefix, in the order the caller
\* uses them.
PrefixInputs == <<"INITIAL", "UPDATED", "LATER">>
Rank(x) == CHOOSE i \in 1..Len(PrefixInputs) : PrefixInputs[i] = x

\* time.Time{} and an instant of time.Now(), in the layout
\* "2006/01/02 15:04:05.000000"; a time.Duration since createTime.
ZeroTimeString == "0001/01/01 00:00:00.000000"
NowString == "2026/01/02 15:04:05.000000"
DeltaString == "1.5ms"

\* The %d verb, for the indexes of arguments.
Itoa(i) == <<"0", "1", "2", "3">>[i + 1]

\* Values passed as arguments: the kind and type reflect reports, whether
\* the value is nil, what its String method does when it has one, and the
\* text: its default rendering, what String returns, or what the panic
\* value prints as.
UntypedNil ==
    [kind |-> "nil", type |-> "", isNil |-> TRUE, stringer |-> "none",
     text |-> "<nil>"]
NilStruct ==
    [kind |-> "ptr", type |-> "*logger.TestStruct", isNil |-> TRUE,
     stringer |-> "returns",
     text |-> "TestStruct is nil but String() was called"]
ValidStruct ==
    [kind |-> "ptr", type |-> "*logger.TestStruct", isNil |-> FALSE,
     stringer |-> "returns", text |-> "TestStruct: Test"]
NilSlice ==
    [kind |-> "slice", type |-> "[]int", isNil |-> TRUE, stringer |-> "none",
     text |-> "[]"]
NilMap ==
    [kind |-> "map", type |-> "map[string]int", isNil |-> TRUE,
     stringer |-> "none", text |-> "map[]"]
ValidString ==
    [kind |-> "string", type |-> "string", isNil |-> FALSE,
     stringer |-> "none", text |-> "test"]
PanicStruct ==
    [kind |-> "ptr", type |-> "*logger.TestPanicStruct", isNil |-> FALSE,
     stringer |-> "panics", text |-> "hello world"]
\* A value whose String panics with a value whose own String panics.
NestedPanicStruct ==
    [kind |-> "ptr", type |-> "*logger.TestNestedPanicStruct",
     isNil |-> FALSE, stringer |-> "panicsTwice", text |-> "hello again"]

Args == {UntypedNil, NilStruct, ValidStruct, NilSlice, NilMap, ValidString,
         PanicStruct, NestedPanicStruct}

ArgLists ==
    UNION {[1..n -> Args] : n \in 1..MaxArgs}

\* What a conversion to text gives: the text, or a panic with its value,
\* and whether the String method of the value was called.
Text(t, called) == [panic |-> FALSE, text |-> t, invoked |-> called]
Panicking(t, called) == [panic |-> TRUE, text |-> t, invoked |-> called]

\* fmt's printing of one operand with %v: a String method is called when
\* there is one; fmt recovers its panic and prints "<nil>" for a nil
\* receiver, else the panic value; a panic while printing the panic value
\* is raised again and leaves fmt.
Sprint(arg) ==
    CASE arg.stringer = "none" -> Text(arg.text, FALSE)
      [] arg.stringer = "returns" -> Text(arg.text, TRUE)
      [] arg.stringer = "panics" ->
            IF arg.kind = "ptr" /\ arg.isNil
            THEN Text("<nil>", TRUE)
            ELSE Text("%!v(PANIC=String method: " \o arg.text \o ")", TRUE)
      [] OTHER ->
            IF arg.kind = "ptr" /\ arg.isNil
            THEN Text("<nil>", TRUE)
            ELSE Panicking(arg.text, TRUE)

\* formatArgIntoString: fmt.Sprint(arg), with a panic recovered into text.
formatArgIntoString(arg) ==
    LET r == Sprint(arg)
    IN  IF r.panic
        THEN Text("<error printing arg: " \o r.text \o ">", r.invoked)
        ELSE r

\* strings.Join.
RECURSIVE Join(_, _)
Join(elems, sep) ==
    IF Len(elems) = 0 THEN ""
    ELSE IF Len(elems) = 1 THEN elems[1]
    ELSE elems[1] \o sep \o Join(Tail(elems), sep)

\* The texts of the operands joined by single spaces, a panic of any of
\* them, and the indexes of the operands whose String was called.
Collect(parts) ==
    [panic   |-> \E i \in 1..Len(parts) : parts[i].panic,
     text    |-> Join([i \in 1..Len(parts) |-> parts[i].text], " "),
     invoked |-> {i - 1 : i \in {j \in 1..Len(parts) : parts[j].invoked}}]

\* formatArgs as the first Logger had it: fmt.Sprint of every argument.
formatArgsPlain(v) ==
    Collect([i \in 1..Len(v) |-> formatArgIntoString(v[i])])

\* formatArgs: the placeholders for nil arguments, formatArgIntoString for
\* the others, joined by single spaces.
formatArgs(v) ==
    Collect([i \in 1..Len(v) |->
        IF v[i].kind = "nil"
        THEN Text("<nil arg " \o Itoa(i - 1) \o ">", FALSE)
        ELSE IF v[i].kind \in {"ptr", "slice", "map"} /\ v[i].isNil
        THEN Text("<nil " \o v[i].type \o " at arg " \o Itoa(i - 1) \o ">",
                  FALSE)
        ELSE formatArgIntoString(v[i])])

\* fmt.Sprintf(format, v...) for a format of one %v for every argument,
\* separated by single spaces.
Sprintf(v) == Collect([i \in 1..Len(v) |-> Sprint(v[i])])

\* Logger.now, formatted.
TimeString == IF zeroT THEN ZeroTimeString ELSE NowString

\* getLogPrefix as if the prefix never changed after NewLogger.
getLogPrefixInitial(levelStr) ==
    IF includeDeltaT
    THEN levelStr \o " " \o DeltaString \o ": " \o PrefixInputs[1]
    ELSE levelStr \o ": " \o PrefixInputs[1]

\* getLogPrefix: the level, the time since createTime if wanted, the prefix.
getLogPrefix(levelStr) ==
    IF includeDeltaT
    THEN levelStr \o " " \o DeltaString \o ": " \o prefix
    ELSE levelStr \o ": " \o prefix

\* The line of log and logln.
LogLine(timeStr, logPrefix, message) ==
    timeStr \o " " \o logPrefix \o " " \o message \o "\n"

\* A panic that leaves a method ends the program.
LoggerRunning == \A p \in Procs : lpc[p] # "panicked"

LAt(p, here) ==
    LoggerRunning /\ lpc[p] = here
    /\ UNCHANGED <<sectionVars, monitorVars, colorVars>>

\* A goroutine starts a call: its arguments, the call's serial number, and
\* the prefix in force.
LBegin(p, first, locals) ==
    /\ LAt(p, "idle")
    /\ lcalls' = lcalls + 1
    /\ lpc' = [lpc EXCEPT ![p] = first]
    /\ lloc' = [lloc EXCEPT ![p] =
                   [ZeroLLoc EXCEPT !.op = locals.op, !.sev = locals.sev,
                                    !.ln = locals.ln, !.args = locals.args,
                                    !.arg = locals.arg,
                                    !.id = lcalls + 1, !.atCall = prefix]]
    /\ UNCHANGED <<level, prefix, includeDeltaT, zeroT, written, lret>>

LReturn(p, wrote, invoked, val) ==
    /\ lpc' = [lpc EXCEPT ![p] = "idle"]
    /\ lret' = [lret EXCEPT ![p] =
                   [op |-> lloc[p].op, id |-> lloc[p].id, sev |-> lloc[p].sev,
                    ln |-> lloc[p].ln, args |-> lloc[p].args,
                    arg |-> lloc[p].arg, atCall |-> lloc[p].atCall,
                    wrote |-> wrote, invoked |-> invoked, val |-> val]]
    /\ UNCHANGED <<lloc, lcalls>>

\* Debug, Info, Warn, Error (ln false) and Debugln, Infoln, Warnln, Errorln
\* (ln true): sev is the level of the method.
LogCall(p, sev, ln, v) ==
    LBegin(p, "log.level",
           [op |-> "log", sev |-> sev, ln |-> ln, args |-> v, arg |-> ""])

\* The filter with the level itself let through only by a lower setting.
LogGetLevelStrict(p) ==
    /\ LAt(p, "log.level")
    /\ IF level < lloc[p].sev
       THEN /\ lpc' = [lpc EXCEPT ![p] = "log.prefix"]
            /\ UNCHANGED <<lloc, lret, lcalls>>
       ELSE LReturn(p, FALSE, {}, "")
    /\ UNCHANGED <<level, prefix, includeDeltaT, zeroT, written>>

\* if l.GetLevel() <= LogLevelX: GetLevel reads the level under RLock; the
\* method returns when the level is above its own.
LogGetLevel(p) ==
    /\ LAt(p, "log.level")
    /\ IF level <= lloc[p].sev
       THEN /\ lpc' = [lpc EXCEPT ![p] = "log.prefix"]
            /\ UNCHANGED <<lloc, lret, lcalls>>
       ELSE LReturn(p, FALSE, {}, "")
    /\ UNCHANGED <<level, prefix, includeDeltaT, zeroT, written>>

\* The prefix of the line taken from what NewLogger was given.
LogGetPrefixInitial(p) ==
    /\ LAt(p, "log.prefix")
    /\ lloc' = [lloc EXCEPT ![p].logPrefix =
                   getLogPrefixInitial(LevelString(lloc[p].sev))]
    /\ lpc' = [lpc EXCEPT ![p] = "log.write"]
    /\ UNCHANGED <<level, prefix, includeDeltaT, zeroT, written, lret,
                   lcalls>>

\* log, logln: prefix := l.getLogPrefix(levelStr), under RLock.
LogGetPrefix(p) ==
    /\ LAt(p, "log.prefix")
    /\ lloc' = [lloc EXCEPT ![p].logPrefix =
                   getLogPrefix(LevelString(lloc[p].sev))]
    /\ lpc' = [lpc EXCEPT ![p] = "log.write"]
    /\ UNCHANGED <<level, prefix, includeDeltaT, zeroT, written, lret,
                   lcalls>>

\* log, logln: the message (fmt.Sprintf in log, l.formatArgs in logln), the
\* time, the line, and fmt.Fprint(l.writer, logLine) under Lock. A panic of
\* the formatting leaves the method before anything is written.
LogWrite(p) ==
    /\ LAt(p, "log.write")
    /\ LET message == IF lloc[p].ln THEN formatArgs(lloc[p].args)
                                    ELSE Sprintf(lloc[p].args)
           logLine == LogLine(TimeString, lloc[p].logPrefix, message.text)
       IN  IF message.panic
           THEN /\ lpc' = [lpc EXCEPT ![p] = "panicked"]
                /\ UNCHANGED <<written, lloc, lret, lcalls>>
           ELSE /\ written' = Append(written, [by |-> p, id |-> lloc[p].id,
                                               text |-> logLine])
                /\ LReturn(p, TRUE, message.invoked, "")
    /\ UNCHANGED <<level, prefix, includeDeltaT, zeroT>>

\* SetPrefix(prefix): the call, and the store under Lock.
LSetPrefixCall(p, x) ==
    LBegin(p, "SetPrefix.store",
           [op |-> "SetPrefix", sev |-> 0, ln |-> FALSE, args |-> << >>,
            arg |-> x])

LSetPrefixStore(p) ==
    /\ LAt(p, "SetPrefix.store")
    /\ prefix' = lloc[p].arg
    /\ LReturn(p, FALSE, {}, "")
    /\ UNCHANGED <<level, includeDeltaT, zeroT, written>>

\* GetPrefix(): the call, and the load under RLock.
LGetPrefixCall(p) ==
    LBegin(p, "GetPrefix.load",
           [op |-> "GetPrefix", sev |-> 0, ln |-> FALSE, args |-> << >>,
            arg |-> ""])

LGetPrefixLoad(p) ==
    /\ LAt(p, "GetPrefix.load")
    /\ LReturn(p, FALSE, {}, prefix)
    /\ UNCHANGED <<level, prefix, includeDeltaT, zeroT, written>>

LogStep(p) == LogGetLevel(p) \/ LogGetPrefix(p) \/ LogWrite(p)

PrefixStep(p) == LSetPrefixStore(p) \/ LGetPrefixLoad(p)

\* The section logger and the monitor idle, and a Logger made with
\* NewLogger(pfx, WithLevel(lvl), WithDeltaTime(include)) and, if zero,
\* WithZeroTime().
InitLogger(pfx, lvl, include, zero) ==
    /\ SectionInit(0) /\ MonitorInit /\ ColorInit
    /\ NewLogger(pfx, lvl, include, zero)

\* Loggers of every level; each goroutine calls the eight methods with a
\* plain message.
InitLevels ==
    \E lvl \in Levels : InitLogger(PrefixInputs[1], lvl, FALSE, TRUE)

NextLevels ==
    \E p \in Procs :
        \/ /\ lcalls < LevelCalls
           /\ \E sev \in Levels, ln \in BOOLEAN :
                 LogCall(p, sev, ln, <<ValidString>>)
        \/ LogStep(p)

SpecLevels == InitLevels /\ [][NextLevels]_vars

\* A Logger with or without the time since its creation; Main sets the
\* prefixes in their order, and both goroutines log and call GetPrefix.
InitPrefix ==
    \E include \in BOOLEAN :
        InitLogger(PrefixInputs[1], LogLevelDebug, include, TRUE)

NextPrefix ==
    \E p \in Procs :
        \/ /\ lcalls < PrefixCalls
           /\ \/ LogCall(p, LogLevelInfo, TRUE, <<ValidString>>)
              \/ LGetPrefixCall(p)
              \/ /\ p = Main
                 /\ \E x \in {PrefixInputs[i] : i \in 1..Len(PrefixInputs)} :
                       Rank(x) = Rank(prefix) + 1 /\ LSetPrefixCall(p, x)
        \/ LogStep(p)
        \/ PrefixStep(p)

SpecPrefix == InitPrefix /\ [][NextPrefix]_vars

\* One call of a logging method of either kind, with every list of
\* arguments, to a Logger that uses time.Now or the zero time.
InitArgs ==
    \E zero \in BOOLEAN :
        InitLogger(PrefixInputs[1], LogLevelDebug, FALSE, zero)

NextArgs ==
    \/ /\ lcalls = 0
       /\ \E ln \in BOOLEAN, v \in ArgLists :
             LogCall(Main, LogLevelDebug, ln, v)
    \/ LogStep(Main)

SpecArgs == InitArgs /\ [][NextArgs]_vars

-----------------------------------------------------------------------------
\* Claims about package logger.

\* The lines written by the call with serial number id.
LinesOf(id) == {k \in 1..Len(written) : written[k].id = id}

\* Caller p returns from a call that was at position here.
LStepOf(p, here) == lpc[p] = here /\ lpc'[p] = "idle"

\* C27: a logging call of severity S to a Logger of level L, formatted or
\* ...ln, has written exactly one line when it returns if S >= L, and none
\* if S < L; no call writes more than one line.
C27_LevelFilter ==
    /\ \A p \in Procs :
          lret[p].op = "log" =>
              Cardinality(LinesOf(lret[p].id)) =
                  IF lret[p].sev >= level THEN 1 ELSE 0
    /\ \A id \in 1..lcalls : Cardinality(LinesOf(id)) <= 1

\* A formatted call at the very level of the Logger has written its line,
\* and a ...ln call below the level has returned without one.
C27_Witness ==
    \E p, q \in Procs :
        /\ lret[p].op = "log" /\ ~ lret[p].ln
        /\ lret[p].sev = level /\ lret[p].wrote
        /\ lret[q].op = "log" /\ lret[q].ln
        /\ lret[q].sev < level /\ ~ lret[q].wrote
        /\ Len(written) = 1

\* The line a logging call with locals c writes when the prefix is q.
LineCarrying(c, q) ==
    LogLine(TimeString,
            IF includeDeltaT
            THEN LevelString(c.sev) \o " " \o DeltaString \o ": " \o q
            ELSE LevelString(c.sev) \o ": " \o q,
            Join([i \in 1..Len(c.args) |-> c.args[i].text], " "))

\* C28: SetPrefix(x) leaves x as the prefix and nothing else changes the
\* prefix given to NewLogger; GetPrefix returns the prefix in force; the
\* line of a logging call carries the prefix in force when the call began
\* or one set since, and the one in force now when no SetPrefix runs beside
\* the call.
C28_LinesCarryCurrentPrefix ==
    [][/\ \A p \in Procs :
             /\ LStepOf(p, "SetPrefix.store") => prefix' = lloc[p].arg
             /\ LStepOf(p, "GetPrefix.load") =>
                   /\ lret'[p].val = prefix
                   /\ Rank(lret'[p].val) >= Rank(lloc[p].atCall)
             /\ LStepOf(p, "log.write") =>
                   \E i \in 1..Len(PrefixInputs) :
                       /\ written'[Len(written')].text =
                              LineCarrying(lloc[p], PrefixInputs[i])
                       /\ i >= Rank(lloc[p].atCall)
                       /\ p = Main => PrefixInputs[i] = prefix
       /\ prefix' # prefix =>
             \E p \in Procs : LStepOf(p, "SetPrefix.store")]_vars

\* After Main's SetPrefix("UPDATED") the other goroutine's call, begun
\* afterwards, has written its line with UPDATED, and Main's GetPrefix has
\* returned UPDATED.
C28_Witness ==
    /\ lret[Main].op = "GetPrefix" /\ lret[Main].val = "UPDATED"
    /\ lret[2].op = "log" /\ lret[2].atCall = "UPDATED" /\ lret[2].wrote
    /\ \E k \in LinesOf(lret[2].id) :
          written[k].text = LineCarrying(lret[2], "UPDATED")

\* Argument a is a typed nil pointer, slice or map.
TypedNil(a) == a.kind \in {"ptr", "slice", "map"} /\ a.isNil

\* Argument a reaches its String method, which panics.
StringPanics(a) ==
    /\ a.stringer \in {"panics", "panicsTwice"}
    /\ a.kind # "nil"

\* What a ...ln call is to show for argument a at index i.
ShownByLn(a, i) ==
    IF a.kind = "nil" THEN "<nil arg " \o Itoa(i) \o ">"
    ELSE IF TypedNil(a)
    THEN "<nil " \o a.type \o " at arg " \o Itoa(i) \o ">"
    ELSE a.text

\* C29: the line of a ...ln call whose arguments convert without a panic
\* shows "<nil arg i>" for an untyped nil at index i, "<nil TYPE at arg i>"
\* for a typed nil pointer, slice or map, and the text of every other
\* argument, in order and joined by single spaces; String is called for the
\* non-nil arguments that have it and for no nil one.
C29_NilArgumentsShown ==
    LET c == lret[Main]
    IN  (/\ c.op = "log" /\ c.ln /\ c.wrote
         /\ \A i \in 1..Len(c.args) : ~ StringPanics(c.args[i])) =>
            /\ \A k \in LinesOf(c.id) :
                  written[k].text =
                      LogLine(TimeString, LevelString(c.sev) \o ": " \o prefix,
                              Join([i \in 1..Len(c.args) |->
                                       ShownByLn(c.args[i], i - 1)], " "))
            /\ c.invoked = {i - 1 : i \in {j \in 1..Len(c.args) :
                                   /\ c.args[j].stringer # "none"
                                   /\ ~ c.args[j].isNil}}

\* Debugln(validStruct, nilStruct) has written its line.
C29_Witness ==
    /\ lret[Main].op = "log" /\ lret[Main].ln /\ lret[Main].wrote
    /\ lret[Main].args = <<ValidStruct, NilStruct>>
    /\ lret[Main].invoked = {0}
    /\ Len(written) = 1

\* Debugln(nil, nilSlice) has written its line.
C29_WitnessUntyped ==
    /\ lret[Main].op = "log" /\ lret[Main].ln /\ lret[Main].wrote
    /\ lret[Main].args = <<UntypedNil, NilSlice>>
    /\ Len(written) = 1

\* The placeholders that may stand for an argument whose String panicked
\* with a value that prints as t.
Placeholders(t) ==
    {"%!v(PANIC=String method: " \o t \o ")",
     "<error printing arg: " \o t \o ">"}

\* What the line of the call with locals c may show for its i-th argument.
MayShow(c, i) ==
    IF StringPanics(c.args[i]) THEN Placeholders(c.args[i].text)
    ELSE IF c.ln THEN {ShownByLn(c.args[i], i - 1)}
    ELSE {c.args[i].text}

\* C30: no logging call panics, and a call with an argument whose String
\* method panics returns after writing one line, with a placeholder for
\* that argument and the other arguments as they are shown otherwise.
C30_PanicDoesNotPropagate ==
    /\ \A p \in Procs : lpc[p] # "panicked"
    /\ LET c == lret[Main]
       IN  (/\ c.op = "log"
            /\ \E i \in 1..Len(c.args) : StringPanics(c.args[i])) =>
               /\ c.wrote
               /\ Cardinality(LinesOf(c.id)) = 1
               /\ \A k \in LinesOf(c.id) :
                     \E shown \in [1..Len(c.args) ->
                                     UNION {MayShow(c, i) :
                                            i \in 1..Len(c.args)}] :
                         /\ \A i \in 1..Len(c.args) : shown[i] \in MayShow(c, i)
                         /\ written[k].text =
                                LogLine(TimeString,
                                        LevelString(c.sev) \o ": " \o prefix,
                                        Join(shown, " "))

-----------------------------------------------------------------------------
\* Package coloransi: the two encodings of a ColorCode.

\* A ColorCode is a uint32, kept as its four bytes, the highest first.
\* ColorCode(n) for a code below 256, and RGBMask = 0xFFFFFF00.
ColorCode(n) == <<0, 0, 0, n>>
RGBMask == <<255, 255, 255, 0>>

\* a & b on non-negative integers.
RECURSIVE BitAnd(_, _)
BitAnd(a, b) ==
    IF a = 0 \/ b = 0 THEN 0
    ELSE (IF a % 2 = 1 /\ b % 2 = 1 THEN 1 ELSE 0)
         + 2 * BitAnd(a \div 2, b \div 2)

\* The ANSI palette: 30..37 and, 60 above, the bright colours.
Palette == (Black..(Black + 7)) \cup ((Black + 60)..(Black + 67))

\* The uint8 values given to CreateRGB.
ColorBytes == {0, 1, 140, 255}

\* uint32(x)<<24, <<16 and <<8 of a uint8, and a | b on the four bytes.
ShiftLeft24(x) == <<x, 0, 0, 0>>
ShiftLeft16(x) == <<0, x, 0, 0>>
ShiftLeft8(x) == <<0, 0, x, 0>>
Or32(a, b) == [i \in 1..4 |-> BitOr(a[i], b[i])]
And32(a, b) == [i \in 1..4 |-> BitAnd(a[i], b[i])]

\* CreateRGB: uint32(r)<<24 | uint32(g)<<16 | uint32(b)<<8.
CreateRGB(r, g, b) ==
    Or32(Or32(ShiftLeft24(r), ShiftLeft16(g)), ShiftLeft8(b))

\* ColorCode.IsRGB: c&RGBMask != 0.
IsRGB(c) == And32(c, RGBMask) # ColorCode(0)

\* OneForeground: "\033[38;2;r;g;bm" with (code>>24)&0xFF, (code>>16)&0xFF
\* and (code>>8)&0xFF of an RGB code, else "\033[<code>m".
OneForeground(code) ==
    IF IsRGB(code)
    THEN [esc |-> "38;2", r |-> code[1], g |-> code[2], b |-> code[3]]
    ELSE [esc |-> "sgr", code |-> code]

ColorAt == UNCHANGED <<sectionVars, monitorVars, loggerVars>>

\* c := CreateRGB(r, g, b)
ColorCreateRGB(r, g, b) ==
    /\ ColorAt
    /\ colorCode' = CreateRGB(r, g, b)
    /\ colorFrom' = [kind |-> "rgb", r |-> r, g |-> g, b |-> b]
    /\ escape' = NoEscape

\* c := one of the palette's constants
ColorPalette(c) ==
    /\ ColorAt
    /\ colorCode' = ColorCode(c)
    /\ colorFrom' = [kind |-> "ansi", code |-> c]
    /\ escape' = NoEscape

\* OneForeground(c)
ColorOneForeground ==
    /\ ColorAt
    /\ colorFrom # NoColor
    /\ escape = NoEscape
    /\ escape' = OneForeground(colorCode)
    /\ UNCHANGED <<colorCode, colorFrom>>

NextColor ==
    \/ \E r, g, b \in ColorBytes : ColorCreateRGB(r, g, b)
    \/ \E c \in Palette : ColorPalette(c)
    \/ ColorOneForeground

SpecColor == InitWith(0) /\ [][NextColor]_vars

\* C31: IsRGB is true of every CreateRGB(r, g, b) and false of every code
\* of the palette, and OneForeground of an RGB colour is the 24-bit
\* sequence with the r, g and b it was made of.
C31_IsRGBSeparatesEncodings ==
    /\ colorFrom.kind = "rgb" =>
          /\ IsRGB(colorCode)
          /\ escape # NoEscape =>
                escape = [esc |-> "38;2", r |-> colorFrom.r,
                          g |-> colorFrom.g, b |-> colorFrom.b]
    /\ colorFrom.kind = "ansi" =>
          /\ ~ IsRGB(colorCode)
          /\ escape # NoEscape => escape = [esc |-> "sgr", code |-> colorCode]

-----------------------------------------------------------------------------
\* Claims about the times of the section logger under concurrent callers.

\* C32: every event entry of the buffer carries a prevTime that is not
\* later than its own timestamp, so its since-previous value is not
\* negative, whatever the interleaving of the Add and Event callers.
C32_PrevTimeNotAfterTimestamp ==
    \A i \in 1..Len(entries) :
        entries[i].kind = "event" =>
            /\ entries[i].prevTime <= entries[i].timestamp
            /\ Milliseconds(entries[i].timestamp - entries[i].prevTime) >= 0

\* C33: no step of an Add or Event call stores in lastTime a time earlier
\* than the one it replaces, and lastTime is never earlier than startTime.
C33_LastTimeNeverDecreases ==
    [][/\ lastTime' >= lastTime
       /\ lastTime' >= startTime']_vars

-----------------------------------------------------------------------------
\* The first Render among concurrent appends.

\* Calls a run with one Render and concurrent Add and Event calls may start.
StreamCalls == 3

\* Main calls Render once; both goroutines call Add and Event, before,
\* during and after it.
NextStream ==
    \/ \E p \in Procs : AddStep(p) \/ EventStep(p) \/ StreamStep(p)
    \/ ~ complete /\ RenderCall(Main)
    \/ RenderRLock(Main) \/ RenderGroup(Main) \/ RenderWidth(Main)
    \/ RenderHeader(Main) \/ RenderEntryLine(Main)

SpecStream == InitWith(StreamCalls) /\ [][NextStream]_vars

\* The header lines among the lines the call with serial number id printed.
HeadersBy(id) == {k \in PrintedBy(id) : IsHeaderLine(out[k].line)}

\* C34: when the two goroutines have each streamed an entry of one section
\* and the buffer holds no other entry of that section, at least one of
\* the two calls has printed the section's header.
C34_FirstOfSectionPrintsHeader ==
    (/\ AllReturned
     /\ \A p \in Procs : Appended(p) /\ ret[p].late
     /\ Section(ret[1].entry) = Section(ret[2].entry)
     /\ Cardinality({i \in 1..Len(entries) :
                        Section(entries[i]) = Section(ret[1].entry)}) = 2)
        => HeadersBy(ret[1].id) \cup HeadersBy(ret[2].id) # {}

\* The entries a Render emits: its groups in the order of its sections.
RECURSIVE EmittedBy(_, _)
EmittedBy(order, groups) ==
    IF order = << >> THEN << >>
    ELSE groups[order[1]] \o EmittedBy(Tail(order), groups)

\* C35: the maxKeyWidth a Render that emits entries takes from
\* calculateMaxWidth is the greatest Width() of the entries it emits.
C35_WidthOfEmittedEntries ==
    [][(pc[Main] = "render_width" /\ pc'[Main] = "render_header") =>
          loc'[Main].maxKeyWidth =
              MaxWidthOf(EmittedBy(loc[Main].order, loc[Main].groups))]_vars

\* The widths a label column may have had: those of the buffered entries.
WidthsSeen == {0} \cup {Width(entries[i]) : i \in 1..Len(entries)}

\* The entry lines among lines that show entry e under its section.
RenderedLinesOf(lines, e) ==
    {m \in 1..Len(lines) :
        /\ \E w \in WidthsSeen : ShowsEntry(lines[m], e, w)
        /\ GoverningSection(lines, m) = Section(e)}

\* The lines of the streaming path on standard output that show entry e.
StreamedLinesOf(e) ==
    {k \in 1..Len(out) :
        /\ IsStreamEntryLine(out[k].line)
        /\ out[k].line[5].text = RenderValue(e)
        /\ \E w \in WidthsSeen :
              out[k].line[3].text =
                  PadRight(Section(e) \o "/" \o RenderLabel(e), w)}

\* Two entries that no line can tell apart: the same section, label
\* text and value.
ShownAlike(e, f) ==
    /\ Section(e) = Section(f)
    /\ RenderLabel(e) = RenderLabel(f)
    /\ RenderValue(e) = RenderValue(f)

\* C36: once the one Render has returned its lines to Main and the other
\* goroutine's calls have returned, every buffered entry is shown as many
\* times as the buffer holds entries shown alike, each time either by a
\* line of that Render or by a line of the streaming path; no line shows
\* anything else.
C36_RenderedOrStreamedOnce ==
    (Rendered(Main) /\ AllReturned) =>
        LET lines == ret[Main].val
        IN  /\ \A i \in 1..Len(entries) :
                  Cardinality(RenderedLinesOf(lines, entries[i]))
                      + Cardinality(StreamedLinesOf(entries[i]))
                  = Cardinality({j \in 1..Len(entries) :
                                    ShownAlike(entries[j], entries[i])})
            /\ Cardinality({m \in 1..Len(lines) : IsRenderEntryLine(lines[m])})
                  + Cardinality({k \in 1..Len(out) :
                                    IsStreamEntryLine(out[k].line)})
               = Len(entries)

\* The Render has returned the line of the entry appended before it, and
\* the other goroutine's later entry of the same section was streamed.
C36_Witness ==
    /\ Rendered(Main) /\ AllReturned
    /\ Len(entries) = 2
    /\ Section(entries[1]) = Section(entries[2])
    /\ Cardinality(RenderedLinesOf(ret[Main].val, entries[1])) = 1
    /\ Cardinality(StreamedLinesOf(entries[2])) = 1
    /\ ret[2].late

-----------------------------------------------------------------------------
\* SetWidth with any integer: widths at which a border line has no room
\* for its fixed glyphs, beside the width of the other specifications.
NarrowCalls == 3

AnyWidths == Widths \cup {-1, 4, 10}

SetAnyWidthCall(p) ==
    \E width \in AnyWidths :
        /\ Begin(p, "SetWidth", "setwidth_lock", [args |-> << width >>])
        /\ UNCHANGED <<entries, startTime, lastTime, complete, cfg, mu, clock, out, ret>>

\* One goroutine sets the width, adds entries and renders.
NextNarrow ==
    \/ SetAnyWidthCall(Main) \/ SetWidthLock(Main) \/ SetWidthStore(Main)
    \/ AddStep(Main) \/ StreamStep(Main) \/ RenderStep(Main)

SpecNarrow == InitWith(NarrowCalls) /\ [][NextNarrow]_vars

\* C37: whatever width SetWidth has stored, the fill count createBorderLine
\* hands to strings.Repeat is not negative, for the header of a streamed
\* section and for every border line of Render, and no call panics.
C37_FillCountNotNegative ==
    \A p \in Procs :
        /\ pc[p] # "panic"
        /\ pc[p] = "header_print" =>
              BorderWidth(cfg.width, loc[p].section) >= 0
        /\ pc[p] = "render_header" =>
              /\ BorderWidth(cfg.width, "") >= 0
              /\ \A i \in 1..Len(loc[p].order) :
                    BorderWidth(cfg.width, loc[p].order[i]) >= 0

=============================================================================
